---- MODULE Spec2Model ----
(***************************************************************************)
(* kpmenu: the session daemon (StartServer / setupListener), the cache     *)
(* controller (Show), the navigation cycle (Execute / OpenDatabase /       *)
(* OpenMenu / entrySelection) and the clipboard clear tasks                *)
(* (CopyToClipboard / CleanClipboard), as one state machine.               *)
(*                                                                         *)
(* Time is counted in ticks since the zero time (time.Time{});             *)
(* TicksPerSecond ticks make one second, so that the whole-second          *)
(* truncation int(d.Seconds()) of the code is a real conversion.           *)
(***************************************************************************)
EXTENDS Integers, Sequences, FiniteSets, TLC

\* ---------------------------------------------------------------- bounds
TicksPerSecond == 2
\* ticks between the zero time and the start of the process
StartTime == 20
\* ticks of process life that are explored
MaxTime == 6
\* connections made by clients over the life of the daemon
MaxConns == 2
\* clear tasks spawned over the life of the daemon
MaxTasks == 1
\* copies made in the clipboard specification
MaxClipTasks == 2
\* invocations that start up beside each other
MaxInvocations == 2
\* loopback ports the system hands out
MaxPorts == 2
MaxArgs == 3
MaxEntries == 2

\* ------------------------------------------------------ program constants
\* time.Time{} : the unset CacheStart
ZeroTime == 0
\* time.Tick(3 * time.Second)
WatchdogSeconds == 3

MenuShow == 0
MenuReload == 1
MenuExit == 2

menuSelections == <<"Show entries", "Reload database", "Exit">>

\* ---------------------------------------------------------- input domains
\* the configuration the user's config file holds (timeouts in seconds)
FileConfiguration ==
  [ General |-> [NoCache |-> FALSE, CacheOneTime |-> FALSE, CacheTimeout |-> 1,
                 ClipboardTimeout |-> 1, ClipboardTool |-> "xsel"],
    Executable |-> [CustomClipboardCopy |-> "", CustomClipboardPaste |-> "",
                    CustomClipboardClean |-> ""],
    Database |-> [Database |-> "db1", KeyFile |-> "", Password |-> "pw1"],
    Flags |-> [Daemon |-> FALSE] ]

\* argument lists an invocation may be started with
ArgLists ==
  { << >>, <<"-d", "db2">>, <<"-d", "">>, <<"-p", "pw2">>, <<"-p", "">>,
    <<"-k", "k1">>, <<"--nocache">>, <<"--cacheOneTime">>, <<"--daemon">>,
    <<"--cacheTimeout", "4">>, <<"-c", "0">> }

\* strconv of the numeric flag values that occur
Atoi(str) ==
  CASE str = "0" -> 0 [] str = "1" -> 1 [] str = "4" -> 4 [] str = "-1" -> -1 [] OTHER -> 0

\* Configuration.ParseFlags: every flag named in the list is set, the others stay
RECURSIVE ParseFlags(_, _)
ParseFlags(c, args) ==
  IF args = << >> THEN c
  ELSE LET f == Head(args)
           v == IF Len(args) > 1 THEN args[2] ELSE ""
           rest1 == Tail(args)
           rest2 == IF Len(args) > 1 THEN Tail(Tail(args)) ELSE << >>
       IN CASE f = "-d" -> ParseFlags([c EXCEPT !.Database.Database = v], rest2)
            [] f = "-k" -> ParseFlags([c EXCEPT !.Database.KeyFile = v], rest2)
            [] f = "-p" -> ParseFlags([c EXCEPT !.Database.Password = v], rest2)
            [] f = "--cacheTimeout" ->
                 ParseFlags([c EXCEPT !.General.CacheTimeout = Atoi(v)], rest2)
            [] f = "-c" ->
                 ParseFlags([c EXCEPT !.General.ClipboardTimeout = Atoi(v)], rest2)
            [] f = "--clipboardTool" ->
                 ParseFlags([c EXCEPT !.General.ClipboardTool = v], rest2)
            [] f = "--customClipboardCopy" ->
                 ParseFlags([c EXCEPT !.Executable.CustomClipboardCopy = v], rest2)
            [] f = "--customClipboardPaste" ->
                 ParseFlags([c EXCEPT !.Executable.CustomClipboardPaste = v], rest2)
            [] f = "--nocache" -> ParseFlags([c EXCEPT !.General.NoCache = TRUE], rest1)
            [] f = "--cacheOneTime" ->
                 ParseFlags([c EXCEPT !.General.CacheOneTime = TRUE], rest1)
            [] f = "--daemon" -> ParseFlags([c EXCEPT !.Flags.Daemon = TRUE], rest1)
            [] OTHER -> ParseFlags(c, rest1)

\* Configuration.LoadConfig: the config file overwrites the sections it holds
\* (Flags is no section of the file, and the executable section is never read)
LoadConfig(c) ==
  [c EXCEPT !.General = FileConfiguration.General,
            !.Database = FileConfiguration.Database]

checkFlagsToolsOnly(c, toolsFound) == toolsFound

\* checkFlags: a database is selected and the picker and clipboard tools exist
checkFlags(c, toolsFound) == c.Database.Database # "" /\ toolsFound

\* what a Packet meets: its argument list, whether the config file still parses
\* (LoadConfig) and whether the picker and clipboard tools are found (checkFlags)
PacketInputs ==
  {<<args, TRUE, TRUE>> : args \in ArgLists}
    \cup {<< << >>, FALSE, TRUE >>, << << >>, TRUE, FALSE >>, <<<<"-p", "pw2">>, TRUE, FALSE>>}

\* passwords a user may type at the password prompt
TypedPasswords == {"pw1", "pw2", ""}

\* entries of the decoded database: the field value each one yields
EntryValue == <<"A", "B">>
NoEntry == 0

\* what an external program may put on the clipboard
ExternalValues == {"B"}

\* results of executePrompt: the trimmed output line and the ErrorPrompt
PickerOk(line) == [result |-> line, Cancelled |-> FALSE, Error |-> FALSE]
PickerFailures ==
  { [result |-> "", Cancelled |-> FALSE, Error |-> TRUE],   \* command failed, wrote to stderr
    [result |-> "", Cancelled |-> TRUE, Error |-> FALSE],   \* command failed silently: cancelled
    [result |-> "", Cancelled |-> TRUE, Error |-> TRUE] }   \* empty or unparsable command

\* a prompt that is not shown: the zero ErrorPrompt
NotShown == PickerOk("")

MenuResults ==
  {PickerOk(l) : l \in {"Show entries", "Reload database", "Exit", "other"}}
    \cup PickerFailures

\* the master key each database file was encrypted with (decoder collaborator)
MasterKey(path) == [Passphrase |-> "pw1", Key |-> ""]

NoCredentials == [Passphrase |-> "", Key |-> ""]

VARIABLES
  now,            \* wall clock, in ticks since ZeroTime
  pc,             \* position of the main goroutine
  call,           \* "none", "single" (no cache), "first" (inline), "served" (Packet)
  cfg,            \* menu.Configuration
  loaded,         \* menu.Database.Loaded
  cacheStart,     \* menu.CacheStart
  creds,          \* menu.Database.Keepass.Credentials
  decodedPath,    \* file the entries in memory were decoded from ("" before any decode)
  callChanged,    \* the Packet of the current call changed the database section
  callDecoded,    \* the database was decoded during the current call
  listening,      \* the loopback listener is bound
  backlog,        \* connections made and not yet accepted, oldest first
  nconn,          \* connections made so far
  accepted,       \* connections accepted so far, in order
  cur,            \* conn of the current loop iteration
  dec,            \* state of the decode goroutine of each accepted connection
  deadline,       \* accept deadline of the listener
  watchdog,       \* instant at which the 3 second watchdog fires
  dispatched,     \* connections whose Packet was handed to handlePacket, in order
  tasks,          \* clear tasks spawned so far
  clipboard,      \* content of the system clipboard
  toolsMayFail,   \* the clipboard tools of this machine may return an error
  launch,         \* the PortRecord and the invocations that start up beside it
  observed,       \* what the prompts of the last navigation step returned
  wire,           \* one Packet on its way from a client to the daemon
  pick,           \* one entry selection followed line by line
  exitCode,       \* exit status once pc = "exited"
  ended           \* why the process is terminating

vars == << now, pc, call, cfg, loaded, cacheStart, creds, decodedPath, callChanged,
           callDecoded, listening, backlog, nconn, accepted, cur,
           dec, deadline, watchdog, dispatched, tasks, clipboard, toolsMayFail,
           launch, observed, wire, pick, exitCode, ended >>

databaseVars == << cfg, loaded, cacheStart, creds, decodedPath >>
sessionVars == << cfg, loaded, cacheStart, creds, decodedPath, callChanged, callDecoded >>
listenerVars == << backlog, nconn, accepted, cur, dec, deadline, watchdog, dispatched >>
clipVars == << tasks, clipboard >>

\* ------------------------------------------------------------- Initialize
\* Initialize: the cache window starts when the configuration has been read
InitialCacheStart(c, t) ==
  IF ~c.Flags.Daemon /\ ~c.General.NoCache THEN t ELSE ZeroTime

\* no port bound or recorded
NoPort == 0

\* no invocation is starting up
NoLaunch == [record |-> NoPort, writer |-> 0, inv |-> << >>]

\* a Go slice of strings: nil, or a backing array with its elements
NilSlice == [nil |-> TRUE, elems |-> << >>]
Slice(a) == [nil |-> FALSE, elems |-> a]

\* var packet Packet
ZeroPacket == [CliArguments |-> NilSlice]

\* no Packet is being followed
NoWire == [pc |-> "none"]

\* the zero Entry: no values
ZeroEntry == << >>

\* no entry selection is being followed
NoPick == [pc |-> "none"]

\* no prompt is being watched
NoObservation == [at |-> "none", r |-> NotShown, rf |-> NotShown, ok |-> FALSE]

Init ==
  /\ launch = NoLaunch
  /\ observed = NoObservation
  /\ wire = NoWire
  /\ pick = NoPick
  /\ now = StartTime
  /\ pc = "StartServer"
  /\ call = "none"
  /\ \E args \in ArgLists :
       /\ cfg = ParseFlags(LoadConfig(FileConfiguration), args)
       /\ checkFlags(cfg, TRUE)
  /\ loaded = FALSE
  /\ cacheStart = InitialCacheStart(cfg, now)
  /\ creds = NoCredentials
  /\ decodedPath = ""
  /\ callChanged = FALSE
  /\ callDecoded = FALSE
  /\ listening = FALSE
  /\ backlog = << >>
  /\ nconn = 0
  /\ accepted = << >>
  /\ cur = 0
  /\ dec = [i \in 1..MaxConns |-> "none"]
  /\ deadline = ZeroTime
  /\ watchdog = ZeroTime
  /\ dispatched = << >>
  /\ tasks = << >>
  /\ clipboard = ""
  /\ toolsMayFail = TRUE
  /\ exitCode = 0
  /\ ended = "no"

\* ------------------------------------------------------ returning a call
\* setupListener has returned: the deferred Close() calls have run and its
\* locals are gone
ListenerClosed ==
  /\ listening' = FALSE
  /\ backlog' = << >>
  /\ nconn' = 0
  /\ accepted' = << >>
  /\ cur' = 0
  /\ dec' = [i \in 1..MaxConns |-> "none"]
  /\ deadline' = ZeroTime
  /\ watchdog' = ZeroTime
  /\ dispatched' = << >>

\* What the caller of Execute / Show does with the returned flag:
\* StartServer (no cache): os.Exit(1) or return nil; StartServer (first call):
\* return nil or setupListener; the listener loop: leave the loop or go round.
Return(fatal, why) ==
  /\ callChanged' = FALSE
  /\ callDecoded' = FALSE
  /\ CASE call = "single" ->
           /\ UNCHANGED listening
           /\ UNCHANGED listenerVars
           /\ IF fatal
              THEN pc' = "exited" /\ exitCode' = 1 /\ ended' = why
              ELSE pc' = "wait" /\ ended' = "single" /\ UNCHANGED exitCode
       [] call = "first" ->
           /\ UNCHANGED listening
           /\ UNCHANGED listenerVars
           /\ IF fatal
              THEN pc' = "wait" /\ ended' = why /\ UNCHANGED exitCode
              ELSE pc' = "listen" /\ UNCHANGED << exitCode, ended >>
       [] OTHER ->
           IF fatal
           THEN /\ pc' = "wait" /\ ended' = why /\ UNCHANGED exitCode
                /\ ListenerClosed
           ELSE /\ pc' = "loop"
                /\ UNCHANGED << exitCode, ended, listening >>
                /\ UNCHANGED listenerVars

\* ------------------------------------------------------------ StartServer
FirstCallCached(c) == "first"

\* StartServer: without caching Execute is the only call of the process,
\* otherwise it is the first one and setupListener may follow
FirstCall(c) == IF c.General.NoCache THEN "single" ELSE "first"

StartServer ==
  /\ pc = "StartServer"
  /\ call' = FirstCall(cfg)
  /\ pc' = "Execute"
  /\ callDecoded' = FALSE
  /\ UNCHANGED << pick, wire, toolsMayFail, launch, observed, now, cfg, loaded, cacheStart, creds, decodedPath, callChanged,
                  listening, exitCode, ended >>
  /\ UNCHANGED listenerVars
  /\ UNCHANGED clipVars

\* ----------------------------------------------------------- OpenDatabase
HasCredentialsNever(cr) == FALSE

HasCredentials(cr) == cr.Passphrase # "" \/ cr.Key # ""

AddCredentialsToDatabase(c, password, old) ==
  IF password # "" /\ c.Database.KeyFile # ""
  THEN [Passphrase |-> password, Key |-> c.Database.KeyFile]
  ELSE IF password # ""
  THEN [Passphrase |-> password, Key |-> ""]
  ELSE IF c.Database.KeyFile # ""
  THEN [Passphrase |-> "", Key |-> c.Database.KeyFile]
  ELSE old

DecodeSucceedsAlways(path, cr, io) == TRUE

\* Database.OpenDatabase: the file opens and decodes under the credentials
DecodeSucceeds(path, cr, io) == io /\ cr = MasterKey(path)

\* the current call goes on: nothing of the process or of the listener changes
Continue ==
  /\ UNCHANGED << exitCode, ended, listening, callChanged >>
  /\ UNCHANGED listenerVars

\* Menu.OpenDatabase from the point where the password is known
\* (password = "" when credentials are already stored)
OpenDatabaseWith(password, io) ==
  LET cr == IF HasCredentials(creds) THEN creds
            ELSE AddCredentialsToDatabase(cfg, password, creds)
  IN /\ creds' = cr
     /\ IF DecodeSucceeds(cfg.Database.Database, cr, io)
        THEN /\ loaded' = TRUE
             /\ decodedPath' = cfg.Database.Database
             /\ callDecoded' = TRUE
             /\ pc' = "menu"
             /\ Continue
        ELSE /\ Return(TRUE, "unlock")
             /\ UNCHANGED << loaded, decodedPath >>

\* Menu.OpenDatabase up to the password prompt
OpenDatabase(io) ==
  IF ~HasCredentials(creds) /\ cfg.Database.Password = ""
  THEN /\ pc' = "pwprompt"
       /\ Continue
       /\ UNCHANGED << loaded, creds, decodedPath, callDecoded >>
  ELSE OpenDatabaseWith(cfg.Database.Password, io)

\* ---------------------------------------------------------------- Execute
Execute ==
  /\ pc = "Execute"
  /\ IF loaded
     THEN /\ pc' = "menu"
          /\ Continue
          /\ UNCHANGED << loaded, creds, decodedPath, callDecoded >>
     ELSE \E io \in BOOLEAN : OpenDatabase(io)
  /\ UNCHANGED << pick, wire, toolsMayFail, launch, observed, now, call, cfg, cacheStart >>
  /\ UNCHANGED clipVars

\* results of the password prompt: the typed line and the ErrorPrompt
PasswordResults == {PickerOk(pw) : pw \in TypedPasswords} \cup PickerFailures

\* PromptPassword has returned r; io: the database file can be read
PasswordPromptWith(r, io) ==
  /\ pc = "pwprompt"
  /\ IF r.Cancelled \/ r.Error
     THEN /\ Return(TRUE, "unlock")
          /\ UNCHANGED << loaded, creds, decodedPath >>
     ELSE OpenDatabaseWith(r.result, io)
  /\ UNCHANGED << pick, wire, toolsMayFail, launch, now, call, cfg, cacheStart >>
  /\ UNCHANGED clipVars

PasswordPrompt ==
  /\ pc = "pwprompt"
  /\ \E r \in PasswordResults, io \in BOOLEAN : PasswordPromptWith(r, io)
  /\ UNCHANGED observed

\* --------------------------------------------------------------- OpenMenu
\* PromptMenu: the selection stays at its zero value unless a line matches
PromptMenuShowOnly(r) == MenuShow

PromptMenu(r) ==
  IF ~r.Error /\ ~r.Cancelled /\ (\E i \in 1..Len(menuSelections) : menuSelections[i] = r.result)
  THEN (CHOOSE i \in 1..Len(menuSelections) : menuSelections[i] = r.result) - 1
  ELSE MenuShow

MenuFatalNever(selection) == FALSE

\* the Fatal flag of the ErrorDatabase OpenMenu makes for a selection that is
\* neither Show nor Reload
MenuFatal(selection) == selection = MenuExit

\* Menu.OpenMenu when PromptMenu has returned r; io: the database file can be read
OpenMenuWith(r, io) ==
  /\ pc = "menu"
  /\ IF r.Cancelled
     THEN /\ Return(FALSE, "cancel")
          /\ UNCHANGED << loaded, creds, decodedPath >>
     ELSE CASE PromptMenu(r) = MenuShow ->
                 /\ pc' = "entries"
                 /\ Continue
                 /\ UNCHANGED << loaded, creds, decodedPath, callDecoded >>
            [] PromptMenu(r) = MenuReload ->
                 OpenDatabase(io)
            [] OTHER ->
                 /\ Return(MenuFatal(PromptMenu(r)), "exit")
                 /\ UNCHANGED << loaded, creds, decodedPath >>
  /\ UNCHANGED << pick, wire, toolsMayFail, launch, now, call, cfg, cacheStart >>
  /\ UNCHANGED clipVars

\* whether the database file can be read matters to OpenMenu for Reload only
FileReads(r) == IF ~r.Cancelled /\ PromptMenu(r) = MenuReload THEN BOOLEAN ELSE {TRUE}

\* one answer for each way OpenMenu can go: the cancelled picker and each
\* selection PromptMenu can return
MenuCases ==
  LET way(r) == IF r.Cancelled THEN -1 ELSE PromptMenu(r)
  IN  {CHOOSE r \in MenuResults : way(r) = w : w \in {way(r) : r \in MenuResults}}

OpenMenu ==
  /\ pc = "menu"
  /\ \E r \in MenuCases : \E io \in FileReads(r) : OpenMenuWith(r, io)
  /\ UNCHANGED observed

\* --------------------------------------------------------- entrySelection
EntryTitle == <<"t1", "t2">>
EntryResults == {PickerOk(l) : l \in {"t1", "t2", "other"}} \cup PickerFailures
FieldResults == {PickerOk(l) : l \in {"Password", "other"}} \cup PickerFailures

\* PromptEntries: the first entry whose title is the answer, else the zero Entry
PromptEntries(r) ==
  IF ~r.Error /\ ~r.Cancelled /\ (\E i \in 1..Len(EntryTitle) : EntryTitle[i] = r.result)
  THEN CHOOSE i \in 1..Len(EntryTitle) :
         /\ EntryTitle[i] = r.result
         /\ \A j \in 1..(i - 1) : EntryTitle[j] # r.result
  ELSE NoEntry

\* PromptFields: the value of the chosen field, "" when nothing valid was chosen
PromptFields(entry, r) ==
  IF ~r.Error /\ ~r.Cancelled /\ entry # NoEntry /\ r.result = "Password"
  THEN EntryValue[entry]
  ELSE ""

\* ------------------------------------------------------ clipboard backends
\* cmd = nil: no command is run
NoCommand == ""

\* whether a command that is run succeeds
ToolOutcomes == IF toolsMayFail THEN BOOLEAN ELSE {TRUE}

\* CopyToClipboard: the command the value is fed to ("" : an error is returned)
CopyCommand(c) ==
  CASE c.General.ClipboardTool = "xsel" -> "xsel -ib"
    [] c.General.ClipboardTool = "wl-clipboard" -> "wl-copy"
    [] OTHER -> c.Executable.CustomClipboardCopy

\* GetClipboard: the command whose output is read ("" : an error is returned)
PasteCommand(c) ==
  CASE c.General.ClipboardTool = "xsel" -> "xsel -b"
    [] c.General.ClipboardTool = "wl-clipboard" -> "wl-paste -n"
    [] OTHER -> c.Executable.CustomClipboardPaste

\* CleanClipboard: the command that empties the clipboard (NoCommand: cmd = nil)
CleanCommand(c) ==
  CASE c.General.ClipboardTool = "xsel" -> "xsel -bc"
    [] c.General.ClipboardTool = "wl-clipboard" -> "wl-copy -c"
    [] OTHER -> c.Executable.CustomClipboardClean

\* the outcomes a command can have: none but failure when there is no command
Outcomes(command) == IF command = NoCommand THEN {FALSE} ELSE ToolOutcomes

CleanClipboardSpawnsUnlessNegative(c) == c.General.ClipboardTimeout >= 0

\* CleanClipboard: one task per copy when the timeout is positive
CleanClipboardSpawns(c) == c.General.ClipboardTimeout > 0

CleanClipboard(c, text, t, ts) ==
  IF CleanClipboardSpawns(c)
  THEN Append(ts, [text |-> text, st |-> "sleep",
                   due |-> t + c.General.ClipboardTimeout * TicksPerSecond])
  ELSE ts

\* entrySelection: PromptEntries, PromptFields, CopyToClipboard, CleanClipboard
\* the prompts entrySelection gets to show, and whether it goes on to the copy
EntrySelectionPrompts ==
  {<<re, NotShown, FALSE>> : re \in {r \in EntryResults : r.Cancelled}}
    \cup UNION {{<<re, rf, ~rf.Cancelled /\ PromptFields(PromptEntries(re), rf) # "">> :
                    rf \in FieldResults}
                  : re \in {r \in EntryResults : ~r.Cancelled}}

NothingSelectedAtEntries(re, rf, fieldValue) == re.Cancelled

\* entrySelection returns before the copy: a prompt was cancelled or the chosen
\* field has no value
NothingSelected(re, rf, fieldValue) == re.Cancelled \/ rf.Cancelled \/ fieldValue = ""

\* entrySelection when PromptEntries has returned re, PromptFields rf and the
\* copy command has succeeded or not
entrySelectionWith(re, rf, copied) ==
  /\ pc = "entries"
  /\ LET selectedEntry == PromptEntries(re)
         fieldValue == PromptFields(selectedEntry, rf)
     IN IF NothingSelected(re, rf, fieldValue)
        THEN /\ Return(FALSE, "cancel")
             /\ UNCHANGED clipVars
        ELSE IF ~copied
        THEN /\ Return(TRUE, "copy")
             /\ UNCHANGED clipVars
        ELSE /\ CleanClipboardSpawns(cfg) => Len(tasks) < MaxTasks
             /\ clipboard' = fieldValue
             /\ tasks' = CleanClipboard(cfg, fieldValue, now, tasks)
             /\ Return(FALSE, "copied")
  /\ UNCHANGED << pick, wire, toolsMayFail, launch, now, call >>
  /\ UNCHANGED databaseVars

\* the field value entrySelection goes on to copy ("" : it returns before)
Selected(in) == IF in[3] THEN PromptFields(PromptEntries(in[1]), in[2]) ELSE ""

\* one pair of answers for each way entrySelection can go: for the return
\* before the copy and for each value copied
EntrySelectionCases ==
  {CHOOSE in \in EntrySelectionPrompts : Selected(in) = v :
     v \in {Selected(in) : in \in EntrySelectionPrompts}}

entrySelection ==
  /\ pc = "entries"
  /\ \E in \in EntrySelectionCases :
       \E copied \in (IF in[3] THEN Outcomes(CopyCommand(cfg)) ELSE {FALSE}) :
          entrySelectionWith(in[1], in[2], copied)
  /\ UNCHANGED observed

\* ------------------------------------------------------- the clear tasks
Pending(ts) == {i \in 1..Len(ts) : ts[i].st # "done"}

StillRunning(task) == task

\* a task that has ended (WaitGroup.Done)
Done(task) == [text |-> task.text, st |-> "done", due |-> ZeroTime]

MustClearAlways(text, currentClipboard) == TRUE

MustClearNever(text, currentClipboard) == FALSE

\* the task wakes up, runs GetClipboard and compares
MustClear(text, currentClipboard) == text = currentClipboard

TaskRead(i) ==
  /\ pc # "exited"
  /\ i \in 1..Len(tasks)
  /\ tasks[i].st = "sleep"
  /\ now >= tasks[i].due
  /\ \E readOk \in Outcomes(PasteCommand(cfg)) :
       tasks' = [tasks EXCEPT ![i] =
                   IF readOk /\ MustClear(tasks[i].text, clipboard)
                   THEN [@ EXCEPT !.st = "clear"] ELSE Done(@)]
  /\ UNCHANGED << pick, wire, toolsMayFail, launch, observed, now, pc, call, listening, clipboard, exitCode, ended >>
  /\ UNCHANGED sessionVars
  /\ UNCHANGED listenerVars

\* the task runs the clear command and ends
TaskClear(i) ==
  /\ pc # "exited"
  /\ i \in 1..Len(tasks)
  /\ tasks[i].st = "clear"
  /\ IF CleanCommand(cfg) = NoCommand
     THEN UNCHANGED clipboard
     ELSE \E cleared \in ToolOutcomes :
            clipboard' = IF cleared THEN "" ELSE clipboard
  /\ tasks' = [tasks EXCEPT ![i] = Done(@)]
  /\ UNCHANGED << pick, wire, toolsMayFail, launch, observed, now, pc, call, listening, exitCode, ended >>
  /\ UNCHANGED sessionVars
  /\ UNCHANGED listenerVars

\* another program writes the clipboard
ExternalWrite ==
  /\ pc # "exited"
  /\ Pending(tasks) # {}
  /\ \E v \in ExternalValues : v # clipboard /\ clipboard' = v
  /\ UNCHANGED << pick, wire, toolsMayFail, launch, observed, now, pc, call, listening, tasks, exitCode, ended >>
  /\ UNCHANGED sessionVars
  /\ UNCHANGED listenerVars

\* ---------------------------------------------------------------- Show
\* int(d.Seconds()) of a duration of d ticks
Seconds(d) == d \div TicksPerSecond

DatabaseChangedNoPassword(old, new) ==
  \/ old.Database # new.Database
  \/ old.KeyFile # new.KeyFile

\* the comparison of the copied database section with the re-derived one
DatabaseChanged(old, new) ==
  \/ old.Database # new.Database
  \/ old.KeyFile # new.KeyFile
  \/ old.Password # new.Password

CacheValidInclusive(c, start, t) == Seconds(t - start) <= c.General.CacheTimeout

\* the cache is valid while the whole seconds elapsed stay below the timeout
CacheValid(c, start, t) == Seconds(t - start) < c.General.CacheTimeout

RenewedCacheStartNever(c, start, t) == start

RenewedCacheStartAlways(c, start, t) == t

\* the new CacheStart of a valid cache
RenewedCacheStart(c, start, t) == IF ~c.General.CacheOneTime THEN t ELSE start

CacheCheckIgnoringDaemon(c, l, start, t) ==
  IF c.General.NoCache \/ start = ZeroTime \/ ~CacheValid(c, start, t)
  THEN [Loaded |-> FALSE, CacheStart |-> start]
  ELSE [Loaded |-> l, CacheStart |-> RenewedCacheStart(c, start, t)]

CacheCheckRenewingExpired(c, l, start, t) ==
  IF c.Flags.Daemon
  THEN [Loaded |-> l, CacheStart |-> start]
  ELSE IF c.General.NoCache \/ start = ZeroTime
  THEN [Loaded |-> FALSE, CacheStart |-> start]
  ELSE IF CacheValid(c, start, t)
  THEN [Loaded |-> l, CacheStart |-> RenewedCacheStart(c, start, t)]
  ELSE [Loaded |-> FALSE, CacheStart |-> t]

\* Show's cache check: the Loaded flag and the CacheStart it leaves
CacheCheck(c, l, start, t) ==
  IF c.Flags.Daemon
  THEN [Loaded |-> l, CacheStart |-> start]
  ELSE IF c.General.NoCache
  THEN [Loaded |-> FALSE, CacheStart |-> start]
  ELSE IF start = ZeroTime
  THEN [Loaded |-> FALSE, CacheStart |-> start]
  ELSE IF CacheValid(c, start, t)
  THEN [Loaded |-> l, CacheStart |-> RenewedCacheStart(c, start, t)]
  ELSE [Loaded |-> FALSE, CacheStart |-> start]

\* Show up to its call of Execute, for the argument list of the Packet:
\* handleConfiguration (LoadConfig, ParseFlags, checkFlags), the comparison of the
\* database sections and the cache check. The result: whether Show returns true
\* at once, and the configuration, Loaded and CacheStart it leaves.
Show(args, loadOk, toolsFound) ==
  LET new == ParseFlags(LoadConfig(cfg), args)
  IN IF ~loadOk
     THEN [fatal |-> TRUE, cfg |-> cfg, Loaded |-> loaded, CacheStart |-> cacheStart]
     ELSE IF ~checkFlags(new, toolsFound)
     THEN [fatal |-> TRUE, cfg |-> new, Loaded |-> loaded, CacheStart |-> cacheStart]
     ELSE LET l == IF DatabaseChanged(cfg.Database, new.Database) THEN FALSE ELSE loaded
              r == CacheCheck(new, l, cacheStart, now)
          IN [fatal |-> FALSE, cfg |-> new, Loaded |-> r.Loaded, CacheStart |-> r.CacheStart]

\* ---------------------------------------------------------- setupListener
\* net.Listen and savePort; a failure is returned to main, which log.Fatal()s
Bind ==
  /\ pc = "listen"
  /\ \/ /\ listening' = TRUE
        /\ pc' = "loop"
        /\ UNCHANGED << exitCode, ended >>
     \/ /\ pc' = "exited" /\ exitCode' = 1 /\ ended' = "bind"
        /\ UNCHANGED listening
  /\ UNCHANGED << pick, wire, toolsMayFail, launch, observed, now, call >>
  /\ UNCHANGED sessionVars
  /\ UNCHANGED listenerVars
  /\ UNCHANGED clipVars

\* the accept deadline set at the top of the loop
AcceptDeadline(c, start, t) ==
  t + (c.General.CacheTimeout - Seconds(t - start)) * TicksPerSecond

LoopTop ==
  /\ pc = "loop"
  /\ deadline' = AcceptDeadline(cfg, cacheStart, now)
  /\ pc' = "accept"
  /\ UNCHANGED << pick, wire, toolsMayFail, launch, observed, now, call, listening, exitCode, ended >>
  /\ UNCHANGED sessionVars
  /\ UNCHANGED << backlog, nconn, accepted, cur, dec, watchdog, dispatched >>
  /\ UNCHANGED clipVars

\* a client dials the recorded port
Connect ==
  /\ listening
  /\ nconn < MaxConns
  /\ nconn' = nconn + 1
  /\ backlog' = Append(backlog, nconn + 1)
  /\ UNCHANGED << pick, wire, toolsMayFail, launch, observed, now, pc, call, listening, exitCode, ended >>
  /\ UNCHANGED sessionVars
  /\ UNCHANGED << accepted, cur, dec, deadline, watchdog, dispatched >>
  /\ UNCHANGED clipVars

\* Accept returns a connection: the decode goroutine and the watchdog start
AcceptConn ==
  /\ pc = "accept"
  /\ now < deadline
  /\ backlog # << >>
  /\ cur' = Head(backlog)
  /\ backlog' = Tail(backlog)
  /\ accepted' = Append(accepted, Head(backlog))
  /\ dec' = [dec EXCEPT ![Head(backlog)] = "running"]
  /\ watchdog' = now + WatchdogSeconds * TicksPerSecond
  /\ deadline' = ZeroTime
  /\ pc' = "select"
  /\ UNCHANGED << pick, wire, toolsMayFail, launch, observed, now, call, listening, exitCode, ended >>
  /\ UNCHANGED sessionVars
  /\ UNCHANGED << nconn, dispatched >>
  /\ UNCHANGED clipVars

LogNotFatal(why) ==
  /\ pc' = "wait"
  /\ UNCHANGED exitCode
  /\ ended' = why
  /\ ListenerClosed

\* what main does with an error returned by StartServer: log.Fatal
LogFatal(why) ==
  /\ pc' = "exited"
  /\ exitCode' = 1
  /\ ended' = why
  /\ ListenerClosed

AcceptErrorReturnedAlways(timeout) == TRUE

\* the error of Accept is returned unless it is a net.OpError with Timeout()
AcceptErrorReturned(timeout) == ~timeout

\* Accept fails: "cache timed out" and return nil (main waits for the tasks),
\* or return err
AcceptFails(timeout) ==
  IF AcceptErrorReturned(timeout)
  THEN LogFatal("accept")
  ELSE /\ pc' = "wait"
       /\ ended' = "deadline"
       /\ ListenerClosed
       /\ UNCHANGED exitCode

\* Accept returns a timeout error
AcceptTimeout ==
  /\ pc = "accept"
  /\ now >= deadline
  /\ AcceptFails(TRUE)
  /\ UNCHANGED << pick, wire, toolsMayFail, launch, observed, now, call >>
  /\ UNCHANGED sessionVars
  /\ UNCHANGED clipVars

\* Accept returns another error
AcceptError ==
  /\ pc = "accept"
  /\ now < deadline
  /\ AcceptFails(FALSE)
  /\ UNCHANGED << pick, wire, toolsMayFail, launch, observed, now, call >>
  /\ UNCHANGED sessionVars
  /\ UNCHANGED clipVars

\* the decode goroutine of connection i ends its Decode: it blocks sending the
\* packet ("packet") or the error ("err") on its channels, or returns on io.EOF ("gone")
DecodeDone(i) ==
  /\ pc # "exited"
  /\ i \in 1..MaxConns
  /\ dec[i] = "running"
  /\ \E outcome \in {"packet", "err", "gone"} : dec' = [dec EXCEPT ![i] = outcome]
  /\ UNCHANGED << pick, wire, toolsMayFail, launch, observed, now, pc, call, listening, exitCode, ended >>
  /\ UNCHANGED sessionVars
  /\ UNCHANGED << backlog, nconn, accepted, cur, deadline, watchdog, dispatched >>
  /\ UNCHANGED clipVars

ChannelsShared(c, acc) == {acc[k] : k \in 1..Len(acc)}

\* the connections whose channels the select of this iteration reads
Channels(c, acc) == {c}

\* case packet := <-ch : handlePacket, that is Show, for the Packet of
\* connection i that meets the inputs in
ReceivePacketWith(i, in) ==
  /\ pc = "select"
  /\ dec[i] = "packet"
  /\ LET r == Show(in[1], in[2], in[3])
     IN /\ cfg' = r.cfg
        /\ loaded' = r.Loaded
        /\ cacheStart' = r.CacheStart
        /\ callDecoded' = FALSE
        /\ IF r.fatal
           THEN /\ pc' = "wait"
                /\ ended' = "config"
                /\ callChanged' = FALSE
                /\ ListenerClosed
           ELSE /\ pc' = "Execute"
                /\ callChanged' = (cfg'.Database # cfg.Database)
                /\ dec' = [dec EXCEPT ![i] = "gone"]
                /\ dispatched' = Append(dispatched, i)
                /\ cur' = 0
                /\ watchdog' = ZeroTime
                /\ UNCHANGED << ended, listening, backlog, nconn, accepted, deadline >>
  /\ call' = "served"
  /\ UNCHANGED << pick, wire, toolsMayFail, launch, now, creds, decodedPath, exitCode >>
  /\ UNCHANGED clipVars

ReceivePacket ==
  /\ pc = "select"
  /\ \E i \in Channels(cur, accepted), in \in PacketInputs : ReceivePacketWith(i, in)
  /\ UNCHANGED observed

\* case err := <-errCh : return err
ReceiveError ==
  /\ pc = "select"
  /\ \E i \in Channels(cur, accepted) : dec[i] = "err"
  /\ LogFatal("decode")
  /\ UNCHANGED << pick, wire, toolsMayFail, launch, observed, now, call >>
  /\ UNCHANGED sessionVars
  /\ UNCHANGED clipVars

WatchdogFiredAlways(t, w) == TRUE

\* the channel of time.Tick has a value to receive
WatchdogFired(t, w) == t >= w

\* case <-timeout : log and go round the loop
WatchdogTimeout ==
  /\ pc = "select"
  /\ WatchdogFired(now, watchdog)
  /\ pc' = "loop"
  /\ cur' = 0
  /\ watchdog' = ZeroTime
  /\ UNCHANGED << pick, wire, toolsMayFail, launch, observed, now, call, listening, exitCode, ended >>
  /\ UNCHANGED sessionVars
  /\ UNCHANGED << backlog, nconn, accepted, dec, deadline, dispatched >>
  /\ UNCHANGED clipVars

\* ------------------------------------------------------------------- main
\* menu.WaitGroup.Wait() returns and main ends
MainExit ==
  /\ pc = "wait"
  /\ Pending(tasks) = {}
  /\ pc' = "exited"
  /\ exitCode' = 0
  /\ UNCHANGED << pick, wire, toolsMayFail, launch, observed, now, call, listening, ended >>
  /\ UNCHANGED sessionVars
  /\ UNCHANGED listenerVars
  /\ UNCHANGED clipVars

\* ------------------------------------------------------------------- time
\* the main goroutine is waiting for something outside the process: the user at
\* the password prompt or the top menu (the entry and field prompts are answered
\* within the tick), a connection, a Packet, or the clear tasks
MainBlocked ==
  \/ pc \in {"pwprompt", "menu"}
  \/ pc = "accept" /\ now < deadline /\ backlog = << >>
  \/ pc = "select" /\ now < watchdog /\ dec[cur] \notin {"packet", "err"}
  \/ pc = "wait" /\ Pending(tasks) # {}

\* every clear task is asleep: a task whose sleep is over runs within the tick
TasksAsleep ==
  \A i \in 1..Len(tasks) :
     \/ tasks[i].st = "done"
     \/ (tasks[i].st = "sleep" /\ now < tasks[i].due)

Tick ==
  /\ MainBlocked
  /\ TasksAsleep
  /\ now < StartTime + MaxTime
  /\ now' = now + 1
  /\ UNCHANGED << pick, wire, toolsMayFail, launch, observed, pc, call, listening, exitCode, ended >>
  /\ UNCHANGED sessionVars
  /\ UNCHANGED listenerVars
  /\ UNCHANGED clipVars

Next ==
  \/ StartServer
  \/ Execute
  \/ PasswordPrompt
  \/ OpenMenu
  \/ entrySelection
  \/ Bind
  \/ LoopTop
  \/ Connect
  \/ AcceptConn
  \/ AcceptTimeout
  \/ AcceptError
  \/ \E i \in 1..MaxConns : DecodeDone(i)
  \/ ReceivePacket
  \/ ReceiveError
  \/ WatchdogTimeout
  \/ \E i \in 1..MaxTasks : TaskRead(i)
  \/ \E i \in 1..MaxTasks : TaskClear(i)
  \/ ExternalWrite
  \/ MainExit
  \/ Tick

Spec == Init /\ [][Next]_vars

\* ================================================ the clipboard over several copies
\* argument lists that select each clipboard backend
ClipArgLists ==
  { << >>, <<"--clipboardTool", "wl-clipboard">>,
    <<"--clipboardTool", "custom", "--customClipboardCopy", "mycopy",
      "--customClipboardPaste", "mypaste">>,
    <<"--clipboardTool", "custom", "--customClipboardCopy", "mycopy">>,
    <<"-c", "0">> }

\* a daemon whose database is open and whose menu is shown
ClipInit ==
  /\ launch = NoLaunch
  /\ observed = NoObservation
  /\ wire = NoWire
  /\ pick = NoPick
  /\ now = StartTime
  /\ pc = "menu"
  /\ call = "first"
  /\ \E args \in ClipArgLists :
       /\ cfg = ParseFlags(LoadConfig(FileConfiguration), args)
       /\ checkFlags(cfg, TRUE)
  /\ loaded = TRUE
  /\ cacheStart = InitialCacheStart(cfg, now)
  /\ creds = MasterKey(cfg.Database.Database)
  /\ decodedPath = cfg.Database.Database
  /\ callChanged = FALSE
  /\ callDecoded = TRUE
  /\ listening = FALSE
  /\ backlog = << >>
  /\ nconn = 0
  /\ accepted = << >>
  /\ cur = 0
  /\ dec = [i \in 1..MaxConns |-> "none"]
  /\ deadline = ZeroTime
  /\ watchdog = ZeroTime
  /\ dispatched = << >>
  /\ tasks = << >>
  /\ clipboard = ""
  /\ toolsMayFail \in BOOLEAN
  /\ exitCode = 0
  /\ ended = "no"

\* a task spawned at time t wakes before the clock of the model stops
WakesInTime(c, t) == t + c.General.ClipboardTimeout * TicksPerSecond <= StartTime + MaxTime

\* the configuration in force when the last clear task was spawned
CopyObservation(c) == [at |-> "copy", cfg |-> c]

\* entrySelection from CopyToClipboard on, for a field value the user chose; the
\* menu of the next cycle is shown at once (the steps between two copies touch
\* neither the clipboard nor the tasks)
ClipCopy ==
  /\ pc = "menu"
  /\ Len(tasks) < MaxClipTasks
  /\ CleanClipboardSpawns(cfg) => WakesInTime(cfg, now)
  /\ \E k \in 1..Len(EntryValue) :
     \E copied \in Outcomes(CopyCommand(cfg)) :
       IF ~copied
       THEN /\ pc' = "wait"
            /\ ended' = "copy"
            /\ UNCHANGED clipVars
            /\ UNCHANGED observed
       ELSE /\ clipboard' = EntryValue[k]
            /\ tasks' = CleanClipboard(cfg, EntryValue[k], now, tasks)
            /\ observed' = IF CleanClipboardSpawns(cfg) THEN CopyObservation(cfg) ELSE observed
            /\ UNCHANGED << pc, ended >>
  /\ UNCHANGED << pick, wire, toolsMayFail, launch, now, call, listening, exitCode >>
  /\ UNCHANGED sessionVars
  /\ UNCHANGED listenerVars

\* a served call between a copy and its clear: Show derives the configuration
\* again from the file and the arguments of the Packet (Execute opens the
\* database again where Show has cleared loaded, and the menu is shown)
ClipPacket ==
  /\ pc = "menu"
  /\ Pending(tasks) # {}
  /\ \E args \in ClipArgLists :
       LET r == Show(args, TRUE, TRUE)
       IN /\ ~r.fatal
          /\ r.cfg # cfg
          /\ cfg' = r.cfg
  /\ UNCHANGED << pick, wire, toolsMayFail, launch, observed, now, pc, call, listening, exitCode, ended,
                  loaded, cacheStart, creds, decodedPath, callChanged, callDecoded >>
  /\ UNCHANGED listenerVars
  /\ UNCHANGED clipVars

ClipNext ==
  \/ ClipCopy
  \/ \E i \in 1..MaxClipTasks : TaskRead(i)
  \/ \E i \in 1..MaxClipTasks : TaskClear(i)
  \/ ExternalWrite
  \/ MainExit
  \/ Tick

ClipSpec == ClipInit /\ [][ClipNext]_vars

\* time passes, the Go scheduler runs every goroutine that can run, the
\* clipboard commands return, and WaitGroup.Wait returns when the counter is zero
ClipFairness ==
  /\ WF_vars(Tick)
  /\ WF_vars(MainExit)
  /\ \A i \in 1..MaxClipTasks : WF_vars(TaskRead(i)) /\ WF_vars(TaskClear(i))

FairClipSpec == ClipSpec /\ ClipFairness

\* the same with served calls that change the configuration between the copies
ReconfNext ==
  \/ ClipCopy
  \/ ClipPacket
  \/ \E i \in 1..MaxClipTasks : TaskRead(i)
  \/ \E i \in 1..MaxClipTasks : TaskClear(i)
  \/ ExternalWrite
  \/ MainExit
  \/ Tick

ReconfSpec == ClipInit /\ [][ReconfNext]_vars

\* ================================================= one call watched at its prompts
\* argument lists of the call that is watched
NavArgLists == { << >>, <<"-p", "">>, <<"--nocache">>, <<"-c", "0">>, <<"-c", "-1">> }

\* the call is about to run Execute: the first call of a process (inline, or
\* the only one without caching), or a call served for the first Packet after
\* Show has looked at the cache
NavInit ==
  /\ launch = NoLaunch
  /\ observed = NoObservation
  /\ wire = NoWire
  /\ pick = NoPick
  /\ now = StartTime
  /\ pc = "Execute"
  /\ \E args \in NavArgLists : cfg = ParseFlags(LoadConfig(FileConfiguration), args)
  /\ call \in (IF cfg.General.NoCache THEN {"single", "served"} ELSE {"first", "served"})
  /\ loaded \in (IF call = "served" /\ ~cfg.General.NoCache /\ cfg.Database.Password # ""
                 THEN BOOLEAN ELSE {FALSE})
  /\ cacheStart = InitialCacheStart(cfg, now)
  /\ creds = IF call = "served" THEN MasterKey("db1") ELSE NoCredentials
  /\ decodedPath = IF call = "served" THEN "db1" ELSE ""
  /\ callChanged = FALSE
  /\ callDecoded = FALSE
  /\ listening = (call = "served")
  /\ backlog = << >>
  /\ nconn = IF call = "served" THEN 1 ELSE 0
  /\ accepted = IF call = "served" THEN << 1 >> ELSE << >>
  /\ cur = 0
  /\ dec = [i \in 1..MaxConns |-> IF call = "served" /\ i = 1 THEN "gone" ELSE "none"]
  /\ deadline = ZeroTime
  /\ watchdog = ZeroTime
  /\ dispatched = IF call = "served" THEN << 1 >> ELSE << >>
  /\ tasks = << >>
  /\ clipboard = ""
  /\ toolsMayFail = TRUE
  /\ exitCode = 0
  /\ ended = "no"

\* what the prompts of a step returned, and whether the collaborator of the
\* step (the database file to read, the copy command) did its work
Observation(at, r, rf, ok) == [at |-> at, r |-> r, rf |-> rf, ok |-> ok]

NavPasswordPrompt ==
  \E r \in PasswordResults, io \in BOOLEAN :
     /\ PasswordPromptWith(r, io)
     /\ observed' = Observation("password", r, NotShown, io)

NavOpenMenu ==
  \E r \in MenuResults :
     \E io \in FileReads(r) :
        /\ OpenMenuWith(r, io)
        /\ observed' = Observation("menu", r, NotShown, io)

NavEntrySelection ==
  \E in \in EntrySelectionPrompts :
     \E copied \in (IF in[3] THEN Outcomes(CopyCommand(cfg)) ELSE {FALSE}) :
        /\ entrySelectionWith(in[1], in[2], copied)
        /\ observed' = Observation("entries", in[1], in[2], copied)

NavNext ==
  \/ Execute
  \/ NavPasswordPrompt
  \/ NavOpenMenu
  \/ NavEntrySelection
  \/ \E i \in 1..MaxTasks : TaskRead(i)
  \/ \E i \in 1..MaxTasks : TaskClear(i)
  \/ ExternalWrite
  \/ MainExit
  \/ Tick

NavSpec == NavInit /\ [][NavNext]_vars

\* ================================================ one Packet dispatched by a daemon
\* a caching daemon in the select of its loop: it accepted a connection at
\* StartTime, and the Packet has been decoded and waits on the channel
DispatchInit ==
  /\ launch = NoLaunch
  /\ observed = NoObservation
  /\ wire = NoWire
  /\ pick = NoPick
  /\ now \in StartTime..(StartTime + TicksPerSecond)
  /\ pc = "select"
  /\ call = "first"
  /\ \E args \in NavArgLists : cfg = ParseFlags(LoadConfig(FileConfiguration), args)
  /\ ~cfg.General.NoCache
  /\ cfg.Flags.Daemon \/ cfg.General.CacheTimeout > 0
  /\ loaded \in BOOLEAN
  /\ cacheStart = InitialCacheStart(cfg, StartTime)
  /\ creds = MasterKey("db1")
  /\ decodedPath = "db1"
  /\ callChanged = FALSE
  /\ callDecoded = FALSE
  /\ listening = TRUE
  /\ backlog = << >>
  /\ nconn = 1
  /\ accepted = << 1 >>
  /\ cur = 1
  /\ dec = [i \in 1..MaxConns |-> IF i = 1 THEN "packet" ELSE "none"]
  /\ deadline = ZeroTime
  /\ watchdog = StartTime + WatchdogSeconds * TicksPerSecond
  /\ dispatched = << >>
  /\ tasks = << >>
  /\ clipboard = ""
  /\ toolsMayFail = TRUE
  /\ exitCode = 0
  /\ ended = "no"

\* the inputs a dispatched Packet met
PacketObservation(in) ==
  Observation("packet", [args |-> in[1], loadOk |-> in[2], toolsFound |-> in[3]], NotShown, TRUE)

NavReceivePacket ==
  \E in \in PacketInputs :
     /\ ReceivePacketWith(cur, in)
     /\ observed' = PacketObservation(in)

\* the dispatch and the call it starts, up to the return into the loop
DispatchNext ==
  \/ NavReceivePacket
  \/ Execute
  \/ NavOpenMenu
  \/ NavEntrySelection
  \/ MainExit
  \/ Tick

DispatchSpec == DispatchInit /\ [][DispatchNext]_vars

\* ======================================== invocations starting beside each other
Invocations == 1..MaxInvocations
Ports == 1..MaxPorts

\* argument lists the invocations are started with
LaunchArgLists == { << >>, <<"--nocache">>, <<"-d", "db2">> }

\* the daemon apart from the Packet that is followed
processVarsOfDaemon ==
  << now, pc, call, cfg, loaded, cacheStart, creds, decodedPath,
     callChanged, callDecoded, listening, backlog, nconn, accepted,
     cur, dec, deadline, watchdog, dispatched, tasks, clipboard,
     toolsMayFail, observed, pick, exitCode, ended >>

\* everything of one process that the start-up of another cannot touch
processVars == << now, pc, call, cfg, loaded, cacheStart, creds, decodedPath,
                  callChanged, callDecoded, listening, backlog, nconn, accepted,
                  cur, dec, deadline, watchdog, dispatched, tasks, clipboard,
                  toolsMayFail, observed, wire, pick, exitCode, ended >>

\* an invocation whose main has just been entered
NewInvocation(args) ==
  [pc |-> "Initialize", args |-> args, read |-> NoPort, conn |-> 0, err |-> FALSE,
   port |-> NoPort, sent |-> << >>, unlocked |-> FALSE, role |-> "none"]

\* the process followed by the other specifications is not running
NoProcess ==
  /\ now = StartTime
  /\ pc = "StartServer"
  /\ call = "none"
  /\ cfg = ParseFlags(LoadConfig(FileConfiguration), << >>)
  /\ loaded = FALSE
  /\ cacheStart = InitialCacheStart(cfg, now)
  /\ creds = NoCredentials
  /\ decodedPath = ""
  /\ callChanged = FALSE
  /\ callDecoded = FALSE
  /\ listening = FALSE
  /\ backlog = << >>
  /\ nconn = 0
  /\ accepted = << >>
  /\ cur = 0
  /\ dec = [i \in 1..MaxConns |-> "none"]
  /\ deadline = ZeroTime
  /\ watchdog = ZeroTime
  /\ dispatched = << >>
  /\ tasks = << >>
  /\ clipboard = ""
  /\ toolsMayFail = TRUE
  /\ observed = NoObservation
  /\ wire = NoWire
  /\ pick = NoPick
  /\ exitCode = 0
  /\ ended = "no"

\* the PortRecord was written by no invocation: there is none, or the one a
\* daemon that ended earlier has left
EarlierDaemon == 0

\* no PortRecord in the cache folder
LaunchInit ==
  /\ launch \in {[record |-> NoPort, writer |-> EarlierDaemon, inv |-> i] :
                    i \in [Invocations -> {NewInvocation(a) : a \in LaunchArgLists}]}
  /\ NoProcess

\* the cache folder holds the PortRecord of a daemon that ended earlier
StaleRecordInit ==
  /\ launch \in {[record |-> port, writer |-> EarlierDaemon, inv |-> i] :
                    port \in Ports,
                    i \in [Invocations -> {NewInvocation(a) : a \in LaunchArgLists}]}
  /\ NoProcess

\* invocation q goes on as given by the fields of r
Goes(q, r) ==
  /\ launch' = [launch EXCEPT !.inv[q] = r]
  /\ UNCHANGED processVars

\* the invocations whose listener is bound
Listeners == {p \in Invocations : launch.inv[p].pc \in {"savePort", "loop"}}
BoundPorts == {launch.inv[p].port : p \in Listeners}

\* the configuration Initialize derives from the argument list
LaunchConfiguration(args) == ParseFlags(LoadConfig(FileConfiguration), args)

\* main: Initialize returns the menu, or nil when the configuration or the flags
\* are bad
LInitialize(q) ==
  /\ launch.inv[q].pc = "Initialize"
  /\ \E ok \in BOOLEAN :
       Goes(q, [launch.inv[q] EXCEPT
                  !.pc = IF ok /\ checkFlags(LaunchConfiguration(launch.inv[q].args), TRUE)
                         THEN "getPort" ELSE "exited"])

\* StartClient: getPort fails when there is no PortRecord
LGetPort(q) ==
  /\ launch.inv[q].pc = "getPort"
  /\ Goes(q, IF launch.record = NoPort
             THEN [launch.inv[q] EXCEPT !.pc = "returned", !.err = TRUE]
             ELSE [launch.inv[q] EXCEPT !.pc = "Dial", !.read = launch.record])

DialAddressNone(port) == NoPort

\* StartClient: "localhost:" + port
DialAddress(port) == port

\* StartClient: net.Dial connects when a listener is bound to the port
LDial(q) ==
  /\ launch.inv[q].pc = "Dial"
  /\ Goes(q, IF \E p \in Listeners : launch.inv[p].port = DialAddress(launch.inv[q].read)
             THEN [launch.inv[q] EXCEPT
                     !.pc = "Encode",
                     !.conn = CHOOSE p \in Listeners :
                                 launch.inv[p].port = DialAddress(launch.inv[q].read)]
             ELSE [launch.inv[q] EXCEPT !.pc = "returned", !.err = TRUE])

\* the Packet StartClient builds
Packet(args) == [CliArguments |-> args]

\* StartClient: Encode succeeds against a live listener; once the listener is
\* closed the write may still succeed or fail
LEncode(q) ==
  /\ launch.inv[q].pc = "Encode"
  /\ \E ok \in (IF launch.inv[q].conn \in Listeners THEN {TRUE} ELSE BOOLEAN) :
       Goes(q, IF ok
               THEN [launch.inv[q] EXCEPT
                       !.pc = "returned",
                       !.sent = Append(@, Packet(launch.inv[q].args))]
               ELSE [launch.inv[q] EXCEPT !.pc = "returned", !.err = TRUE])

StartsServerAlways(err) == TRUE

\* main: if err != nil { StartServer }
StartsServer(err) == err

LMain(q) ==
  /\ launch.inv[q].pc = "returned"
  /\ Goes(q, IF StartsServer(launch.inv[q].err)
             THEN [launch.inv[q] EXCEPT !.pc = "StartServer", !.role = "daemon"]
             ELSE [launch.inv[q] EXCEPT !.pc = "exited", !.role = "client"])

\* StartServer: Execute, the unlock and the first navigation cycle
LStartServer(q) ==
  /\ launch.inv[q].pc = "StartServer"
  /\ Goes(q, [launch.inv[q] EXCEPT !.pc = "Execute", !.unlocked = TRUE])

\* StartServer: the first cycle returns; without caching, or when it is fatal,
\* the process ends, otherwise setupListener is called
LExecuteReturns(q) ==
  /\ launch.inv[q].pc = "Execute"
  /\ \E exit \in BOOLEAN :
       Goes(q, [launch.inv[q] EXCEPT
                  !.pc = IF exit \/ LaunchConfiguration(launch.inv[q].args).General.NoCache
                         THEN "exited" ELSE "Listen"])

\* setupListener: net.Listen(":0") binds a free port, or fails
LListen(q) ==
  /\ launch.inv[q].pc = "Listen"
  /\ \/ \E port \in Ports \ BoundPorts :
          Goes(q, [launch.inv[q] EXCEPT !.pc = "savePort", !.port = port])
     \/ Goes(q, [launch.inv[q] EXCEPT !.pc = "exited"])

\* setupListener: savePort overwrites the PortRecord, or fails and the listener
\* is closed
LSavePort(q) ==
  /\ launch.inv[q].pc = "savePort"
  /\ \/ /\ launch' = [launch EXCEPT !.record = launch.inv[q].port, !.writer = q,
                                      !.inv[q].pc = "loop"]
        /\ UNCHANGED processVars
     \/ Goes(q, [launch.inv[q] EXCEPT !.pc = "exited", !.port = NoPort])

LLoopEndsRemovingRecord(q) ==
  /\ launch.inv[q].pc = "loop"
  /\ launch' = [launch EXCEPT !.record = NoPort, !.inv[q].pc = "exited",
                              !.inv[q].port = NoPort]
  /\ UNCHANGED processVars

\* setupListener returns: the listener is closed, the PortRecord stays
LLoopEnds(q) ==
  /\ launch.inv[q].pc = "loop"
  /\ Goes(q, [launch.inv[q] EXCEPT !.pc = "exited", !.port = NoPort])

LaunchNext ==
  \E q \in Invocations :
     \/ LInitialize(q)
     \/ LGetPort(q)
     \/ LDial(q)
     \/ LEncode(q)
     \/ LMain(q)
     \/ LStartServer(q)
     \/ LExecuteReturns(q)
     \/ LListen(q)
     \/ LSavePort(q)
     \/ LLoopEnds(q)

LaunchSpec == LaunchInit /\ [][LaunchNext]_vars

\* the same invocations, started where an earlier daemon has left its record
StaleRecordSpec == StaleRecordInit /\ [][LaunchNext]_vars

\* ==================================================== one Packet on the wire
\* strings an argument can be
WireStrings == {"", "-d", "db2"}

\* os.Args[1:] of the client: every list of up to MaxArgs arguments
ArgSeqs == UNION {[1..n -> WireStrings] : n \in 0..MaxArgs}

EncodeElementsNonZero(a) == SelectSeq(a, LAMBDA x : x # "")

\* gob sends every element of a slice, the empty string included
EncodeElements(a) == a

\* Encoder.Encode of a Packet: the fields of the struct that are not zero; a
\* slice of length 0 is zero and its field is left out
GobEncode(p) ==
  IF Len(p.CliArguments.elems) = 0
  THEN << >>
  ELSE LET e == EncodeElements(p.CliArguments.elems)
       IN << [field |-> "CliArguments", count |-> Len(e), elems |-> e] >>

\* Decoder.Decode into packet: every field of the message is stored, a field
\* that is not in the message keeps the value packet had
GobDecode(msg, packet) ==
  IF msg = << >>
  THEN packet
  ELSE [CliArguments |-> Slice([i \in 1..msg[1].count |-> msg[1].elems[i]])]

WireInit ==
  /\ wire \in {[pc |-> "Encode", dpc |-> "Decode", args |-> Slice(a), conn |-> << >>,
                closed |-> FALSE, packet |-> ZeroPacket] : a \in ArgSeqs}
  /\ pick = NoPick
  /\ launch = NoLaunch
  /\ now = StartTime
  /\ pc = "select"
  /\ call = "first"
  /\ cfg = ParseFlags(LoadConfig(FileConfiguration), << >>)
  /\ loaded = TRUE
  /\ cacheStart = InitialCacheStart(cfg, now)
  /\ creds = MasterKey(cfg.Database.Database)
  /\ decodedPath = cfg.Database.Database
  /\ callChanged = FALSE
  /\ callDecoded = FALSE
  /\ listening = TRUE
  /\ backlog = << >>
  /\ nconn = 1
  /\ accepted = << 1 >>
  /\ cur = 1
  /\ dec = [i \in 1..MaxConns |-> "none"]
  /\ deadline = ZeroTime
  /\ watchdog = ZeroTime
  /\ dispatched = << >>
  /\ tasks = << >>
  /\ clipboard = ""
  /\ toolsMayFail = TRUE
  /\ observed = NoObservation
  /\ exitCode = 0
  /\ ended = "no"

\* the wire goes on as given by w; nothing else of the daemon is followed
Sends(w) ==
  /\ wire' = w
  /\ UNCHANGED << launch >>
  /\ UNCHANGED processVarsOfDaemon

\* StartClient: enc.Encode(Packet{CliArguments: os.Args[1:]}) writes the
\* message, or fails and writes nothing
WEncode ==
  /\ wire.pc = "Encode"
  /\ \E ok \in BOOLEAN :
       Sends([wire EXCEPT !.pc = "returned",
                          !.conn = IF ok THEN Append(@, GobEncode(Packet(wire.args)))
                                         ELSE @])

\* StartClient returns: defer conn.Close()
WClose ==
  /\ wire.pc = "returned"
  /\ Sends([wire EXCEPT !.pc = "exited", !.closed = TRUE])

\* the decode goroutine: dec.Decode(&packet) gets the message, and ch <- packet
WDecode ==
  /\ wire.dpc = "Decode"
  /\ wire.conn # << >>
  /\ Sends([wire EXCEPT !.dpc = "packet",
                        !.packet = GobDecode(Head(wire.conn), ZeroPacket),
                        !.conn = Tail(@)])

\* the decode goroutine: the stream ends before a message: io.EOF
WEndOfFile ==
  /\ wire.dpc = "Decode"
  /\ wire.conn = << >>
  /\ wire.closed
  /\ Sends([wire EXCEPT !.dpc = "eof"])

WireNext ==
  \/ WEncode
  \/ WClose
  \/ WDecode
  \/ WEndOfFile

WireSpec == WireInit /\ [][WireNext]_vars

\* ============================================ one entry selection, line by line
\* an entry of the database: its values in the order of the file
Value(key, content) == [Key |-> key, Content |-> content]

\* the passwords of the entries, one per position in the database
Passwords == <<"P1", "P2", "P3", "P4">>

\* databases whose entries differ in their titles only, or not even there
TitledEntry(i, title) ==
  << Value("Title", title), Value("UserName", "u"), Value("Password", Passwords[i]) >>

TitleDatabases ==
  UNION {{[i \in 1..n |-> TitledEntry(i, t[i])] : t \in [1..n -> {"t1", "t2"}]}
           : n \in 1..MaxEntries}

\* databases of one entry, with and without the fields a field list is made of
OtpContents == {"", "otpauth://totp/x?secret=JBSWY3DPEHPK3PXP&period=30&digits=6", "bad"}

FieldDatabases ==
  {<< << Value("Title", "t1"), Value("UserName", u), Value("Password", Passwords[1]),
         Value("URL", w) >>
        \o (IF o = "" THEN << >> ELSE << Value("otp", o) >>) >> :
     u \in {"", "u"}, w \in {"", "w"}, o \in OtpContents}

\* strings.Split(s, " ") of the configured lists
DefaultPickConfiguration ==
  [FieldOrder |-> <<"Password", "UserName", "URL">>, FillOtherFields |-> TRUE,
   FillBlacklist |-> <<"">>, NoOTP |-> FALSE]

PickConfigurations ==
  [FieldOrder : {<<"Password", "UserName", "URL">>, <<"URL", "Password">>,
                 <<"Password", "Password">>, <<"">>},
   FillOtherFields : BOOLEAN,
   FillBlacklist : {<<"">>, <<"UserName">>},
   NoOTP : BOOLEAN]

\* contains(array, value)
contains(array, value) == \E i \in 1..Len(array) : array[i] = value

\* gokeepasslib Entry.GetContent: the content of the first value with the key
GetContent(entry, key) ==
  IF \E i \in 1..Len(entry) : entry[i].Key = key
  THEN entry[CHOOSE i \in 1..Len(entry) :
               entry[i].Key = key /\ \A j \in 1..(i - 1) : entry[j].Key # key].Content
  ELSE ""

\* PromptEntries: the title of an entry under the format "{Title}": the match is
\* replaced by the content of the field
FormatEntry(entry) == GetContent(entry, "Title")

\* PromptEntries: listEntries, the formatted title and the entry of each item
listEntries(entries) ==
  [i \in 1..Len(entries) |-> [Title |-> FormatEntry(entries[i]), Entry |-> i]]

\* PromptEntries: the entry of the first item whose title is the answer, or the
\* zero Entry (NoEntry)
PromptEntriesAt(entries, r, line) ==
  LET list == listEntries(entries)
  IN IF ~r.Error /\ ~r.Cancelled /\ (\E i \in 1..Len(list) : list[i].Title = r.result)
     THEN list[CHOOSE i \in 1..Len(list) :
                 /\ list[i].Title = r.result
                 /\ \A j \in 1..(i - 1) : list[j].Title # r.result].Entry
     ELSE NoEntry

OtpKeys == {"otp", "TOTP Seed"}

\* PromptFields: the loop over entry.FullEntry.Values that fills in the other
\* fields, from value k on
RECURSIVE FillOthers(_, _, _, _)
FillOthers(entry, k, acc, conf) ==
  IF k > Len(entry)
  THEN acc
  ELSE IF ~conf.NoOTP /\ entry[k].Key \in OtpKeys
  THEN FillOthers(entry, k + 1, [acc EXCEPT !.hasOTP = TRUE], conf)
  ELSE IF /\ ~contains(acc.fields, entry[k].Key)
          /\ ~contains(conf.FillBlacklist, entry[k].Key)
          /\ entry[k].Content # ""
  THEN FillOthers(entry, k + 1, [acc EXCEPT !.fields = Append(@, entry[k].Key)], conf)
  ELSE FillOthers(entry, k + 1, acc, conf)

OrderedFieldsUnchecked(entry, order) == order

\* PromptFields: the names of the field order that have a content in the entry
OrderedFields(entry, order) == SelectSeq(order, LAMBDA f : GetContent(entry, f) # "")

\* PromptFields: fields and hasOTP
FieldList(entry, conf) ==
  LET ordered == [fields |-> OrderedFields(entry, conf.FieldOrder), hasOTP |-> FALSE]
  IN IF conf.FillOtherFields THEN FillOthers(entry, 1, ordered, conf) ELSE ordered

GenerateOTP == "Generate OTP"

\* PromptFields: the lines written to the picker
FieldLines(entry, conf) ==
  LET l == FieldList(entry, conf)
  IN l.fields \o (IF l.hasOTP THEN << GenerateOTP >> ELSE << >>)

\* CreateOTP: a code from the first otp value when it parses, an error when it
\* does not; without any OTP value the zero OTPAuth has no digits, and Create
\* panics in strings.Repeat
CreateOTP(entry) ==
  IF ~contains([i \in 1..Len(entry) |-> entry[i].Key], "otp")
  THEN [otp |-> "", err |-> FALSE, panics |-> TRUE]
  ELSE IF GetContent(entry, "otp") = "bad"
  THEN [otp |-> "", err |-> TRUE, panics |-> FALSE]
  ELSE [otp |-> "123456", err |-> FALSE, panics |-> FALSE]

\* PromptFields: the value returned for the answer r, the ErrorPrompt, and
\* whether the process panicked
PromptFieldsOf(entry, conf, r) ==
  IF r.Error \/ r.Cancelled
  THEN [value |-> "", Cancelled |-> r.Cancelled, panics |-> FALSE]
  ELSE IF r.result = GenerateOTP
  THEN LET c == CreateOTP(entry)
       IN [value |-> c.otp, Cancelled |-> c.err, panics |-> c.panics]
  ELSE IF contains(FieldList(entry, conf).fields, r.result)
  THEN [value |-> GetContent(entry, r.result), Cancelled |-> FALSE, panics |-> FALSE]
  ELSE [value |-> "", Cancelled |-> FALSE, panics |-> FALSE]

\* entrySelection is entered: nothing chosen, offered or copied yet
NewPick(db, c) ==
  [pc |-> "entries", Entries |-> db, conf |-> c, line |-> 0, entry |-> ZeroEntry,
   offered |-> << >>, result |-> "", fieldValue |-> "", copied |-> ""]

\* the entry prompt of a decoded database is about to be shown
PickInit ==
  /\ pick \in {NewPick(db, DefaultPickConfiguration) : db \in TitleDatabases}
               \cup {NewPick(db, c) : db \in FieldDatabases, c \in PickConfigurations}
  /\ wire = NoWire
  /\ launch = NoLaunch
  /\ now = StartTime
  /\ pc = "entries"
  /\ call = "first"
  /\ cfg = ParseFlags(LoadConfig(FileConfiguration), << >>)
  /\ loaded = TRUE
  /\ cacheStart = InitialCacheStart(cfg, now)
  /\ creds = MasterKey(cfg.Database.Database)
  /\ decodedPath = cfg.Database.Database
  /\ callChanged = FALSE
  /\ callDecoded = TRUE
  /\ listening = FALSE
  /\ backlog = << >>
  /\ nconn = 0
  /\ accepted = << >>
  /\ cur = 0
  /\ dec = [i \in 1..MaxConns |-> "none"]
  /\ deadline = ZeroTime
  /\ watchdog = ZeroTime
  /\ dispatched = << >>
  /\ tasks = << >>
  /\ clipboard = ""
  /\ toolsMayFail = TRUE
  /\ observed = NoObservation
  /\ exitCode = 0
  /\ ended = "no"

\* the selection goes on as given by p; nothing else is followed
Picks(p) ==
  /\ pick' = p
  /\ UNCHANGED << wire, launch, now, pc, call, cfg, loaded, cacheStart, creds, decodedPath,
                  callChanged, callDecoded, listening, backlog, nconn, accepted,
                  cur, dec, deadline, watchdog, dispatched, tasks, clipboard,
                  toolsMayFail, observed, exitCode, ended >>

\* what the picker can return when the lines are shown: the line the user
\* chose (line k), a line typed in (line 0), or a failure
PickerAnswers(lines, typed) ==
  {<<PickerOk(lines[k]), k>> : k \in 1..Len(lines)}
    \cup {<<PickerOk(t), 0>> : t \in typed}
    \cup {<<f, 0>> : f \in PickerFailures}

\* entrySelection: PromptEntries and the returns that follow it
PPromptEntries ==
  /\ pick.pc = "entries"
  /\ LET list == listEntries(pick.Entries)
     IN \E a \in PickerAnswers([i \in 1..Len(list) |-> list[i].Title], {"t3"}) :
          LET e == PromptEntriesAt(pick.Entries, a[1], a[2])
          IN Picks([pick EXCEPT
                      !.pc = IF a[1].Cancelled THEN "cancelled" ELSE "fields",
                      !.line = a[2],
                      !.entry = IF e = NoEntry THEN ZeroEntry ELSE pick.Entries[e]])

\* entrySelection: PromptFields and the returns that follow it
PPromptFields ==
  /\ pick.pc = "fields"
  /\ LET lines == FieldLines(pick.entry, pick.conf)
     IN \E a \in PickerAnswers(lines, {"other", GenerateOTP, "Title"}) :
          LET r == PromptFieldsOf(pick.entry, pick.conf, a[1])
          IN Picks([pick EXCEPT
                      !.pc = IF r.panics THEN "panic"
                             ELSE IF r.Cancelled \/ r.value = "" THEN "returned"
                             ELSE "copy",
                      !.offered = lines,
                      !.result = IF a[1].Error \/ a[1].Cancelled THEN "" ELSE a[1].result,
                      !.fieldValue = r.value])

\* entrySelection: CopyToClipboard(m, fieldValue)
PCopy ==
  /\ pick.pc = "copy"
  /\ \E ok \in BOOLEAN :
       Picks([pick EXCEPT !.pc = "returned",
                          !.copied = IF ok THEN pick.fieldValue ELSE ""])

PickNext ==
  \/ PPromptEntries
  \/ PPromptFields
  \/ PCopy

PickSpec == PickInit /\ [][PickNext]_vars

\* ================================================================ claims
InNavigation == pc \in {"Execute", "pwprompt", "menu", "entries"}
MenuPresented == pc \in {"menu", "entries"}

\* the step in which Show re-derives the configuration and runs the cache check
ShowEvaluates == pc = "select" /\ pc' = "Execute"

\* ticks between the CacheStart Show found and its cache check
Elapsed == now - cacheStart
TimeoutTicks(c) == c.General.CacheTimeout * TicksPerSecond

\* C1: in a served call whose Packet changed the database path, keyfile or
\* password, Loaded is false when Execute starts, and a menu is presented only
\* after the database was decoded again in that call, from the new path; this
\* also with a valid cache window and with the daemon flag set.
C1_CredentialChangeForcesReload ==
  (call = "served" /\ callChanged) =>
     /\ pc = "Execute" => ~loaded
     /\ MenuPresented => callDecoded /\ decodedPath = cfg.Database.Database

C1_Witness ==
  /\ call = "served" /\ callChanged /\ pc = "menu" /\ callDecoded
  /\ ~cfg.General.NoCache /\ cacheStart # ZeroTime /\ Elapsed < TimeoutTicks(cfg)

\* C2: whenever Loaded is true (in a process that has not begun to terminate),
\* the entries in memory were decoded from the database path of the active
\* configuration with its keyfile and its password.
C2_LoadedUnderActiveCredentials ==
  (loaded /\ pc \notin {"wait", "exited"}) =>
     /\ decodedPath = cfg.Database.Database
     /\ creds.Key = cfg.Database.KeyFile
     /\ cfg.Database.Password # "" => creds.Passphrase = cfg.Database.Password

\* C3: sliding window. When a Packet with unchanged database section is
\* evaluated on a caching, non-permanent daemon with CacheOneTime false, less
\* than the timeout after CacheStart, the call sees Loaded true and CacheStart
\* becomes the time of the evaluation.
C3_SlidingWindow ==
  [][ ( /\ ShowEvaluates
        /\ ~cfg'.Flags.Daemon /\ ~cfg'.General.NoCache /\ ~cfg'.General.CacheOneTime
        /\ cfg'.Database = cfg.Database
        /\ Elapsed < TimeoutTicks(cfg') )
      => (loaded' /\ cacheStart' = now) ]_vars

C3_Witness ==
  /\ pc = "Execute" /\ call = "served" /\ Len(dispatched) = 2
  /\ ~cfg.Flags.Daemon /\ ~cfg.General.NoCache /\ ~cfg.General.CacheOneTime
  /\ loaded /\ ~callChanged /\ cacheStart = now
  /\ now - StartTime >= TimeoutTicks(cfg)

C5_DaemonKeepsLoaded ==
  [][ (cfg'.Flags.Daemon /\ loaded /\ ~loaded') => cfg'.Database # cfg.Database ]_vars

C5_Witness ==
  /\ pc = "Execute" /\ call = "served" /\ cfg.Flags.Daemon
  /\ loaded /\ ~callChanged
  /\ (cfg.General.NoCache \/ Elapsed >= TimeoutTicks(cfg))

\* C6: the listener loop of a permanent daemon never ends on an expired accept
\* deadline.
C6_DaemonNeverTimesOut ==
  cfg.Flags.Daemon => ended # "deadline"

\* C7: when the cache check of a non-permanent daemon has run, Loaded is true
\* exactly if it was true before, the Packet left the database section as it
\* was, caching is enabled, CacheStart is set and less than the timeout has
\* elapsed since CacheStart; the check never turns Loaded on.
C7_CacheCheckOutcome ==
  [][ (ShowEvaluates /\ ~cfg'.Flags.Daemon)
      => ( loaded' <=> /\ loaded
                       /\ cfg'.Database = cfg.Database
                       /\ ~cfg'.General.NoCache
                       /\ cacheStart # ZeroTime
                       /\ Elapsed < TimeoutTicks(cfg') ) ]_vars

C7_Witness ==
  /\ pc = "Execute" /\ call = "served" /\ ~cfg.Flags.Daemon
  /\ ~loaded /\ ~callChanged /\ ~cfg.General.NoCache
  /\ cacheStart # ZeroTime /\ Elapsed >= TimeoutTicks(cfg)

\* C8: the navigation cycle in progress is the one of the connection accepted
\* last (nothing is accepted while a cycle runs, nothing before the first
\* inline cycle has ended), and Packets are dispatched in the order in which
\* their connections were accepted.
AcceptIndex(c) == CHOOSE k \in 1..Len(accepted) : accepted[k] = c

C8_OneCycleInArrivalOrder ==
  /\ (InNavigation /\ call = "served") =>
        /\ dispatched # << >> /\ accepted # << >>
        /\ dispatched[Len(dispatched)] = accepted[Len(accepted)]
  /\ (InNavigation /\ call # "served") => accepted = << >>
  /\ \A i, j \in 1..Len(dispatched) :
        i < j => AcceptIndex(dispatched[i]) < AcceptIndex(dispatched[j])

C8_Witness ==
  /\ pc = "menu" /\ call = "served" /\ backlog # << >> /\ Len(dispatched) = 1

\* C9: when the process has terminated after an Exit selection, a navigation
\* error, an expired accept deadline, a decode error or an accept error, no
\* clear task is still pending.
C9_NoPendingTaskAtExit ==
  (pc = "exited" /\ ended \in {"exit", "unlock", "copy", "config", "deadline", "decode", "accept"})
     => Pending(tasks) = {}

\* C10: a clear task that wakes up while the clipboard holds a value other than
\* the one it was spawned for ends without clearing: the clipboard keeps that
\* value.
C10_ChangedClipboardIsKept ==
  [][ \A i \in 1..Len(tasks) :
        (tasks[i].st = "sleep" /\ tasks'[i].st # "sleep" /\ clipboard # tasks[i].text)
           => (tasks'[i].st = "done" /\ clipboard' = clipboard) ]_vars

C10_Witness ==
  \E i \in 1..Len(tasks) :
     tasks[i].st = "done" /\ tasks[i].text = "A" /\ clipboard = "B"


\* the copy and paste commands of the backend exist
BackendUsable ==
  CopyCommand(cfg) # NoCommand /\ PasteCommand(cfg) # NoCommand

\* task i ends in this step
TaskEnds(i) == i \in 1..Len(tasks) /\ tasks[i].st # "done" /\ tasks'[i].st = "done"

\* C11: with a positive clear timeout, working tools and no other write (the
\* clipboard still holds the copied value when the clear task ends), the
\* clipboard is empty once the task has run, whatever the backend is
C11_ClearAfterTimeout ==
  [][\A i \in 1..MaxClipTasks :
       (~toolsMayFail /\ BackendUsable /\ TaskEnds(i) /\ clipboard = tasks[i].text)
         => clipboard' = ""]_vars

\* task i wakes up in this step while the task of a later copy j still sleeps
\* and the clipboard holds the value of that later copy
EarlierTaskFires(i, j) ==
  /\ i < j /\ j <= Len(tasks)
  /\ tasks[i].st = "sleep" /\ tasks'[i] # tasks[i]
  /\ tasks[j].st = "sleep"
  /\ clipboard = tasks[j].text

\* the task ends without running the clear command and the clipboard stays
DoesNothing(i) == tasks'[i].st = "done" /\ clipboard' = clipboard

\* C12 as stated: for every pair of copied values, equal ones included, the
\* earlier task finds a mismatch and does nothing, and the later value stays
C12_EarlierTaskDoesNothing ==
  [][\A i, j \in 1..MaxClipTasks : EarlierTaskFires(i, j) => DoesNothing(i)]_vars

\* C12 amended: the earlier task does nothing when the two copied values differ;
\* when they are equal it finds a match and goes on to the clear command
C12_EarlierTaskComparesValues ==
  [][\A i, j \in 1..MaxClipTasks :
       EarlierTaskFires(i, j) =>
         IF tasks[i].text # tasks[j].text
         THEN DoesNothing(i)
         ELSE /\ clipboard' = clipboard
              /\ (~toolsMayFail /\ BackendUsable) => tasks'[i].st = "clear"]_vars

\* the earlier task has ended on a mismatch and the later value is still there
C12_Witness ==
  /\ Len(tasks) = 2
  /\ tasks[1].text # tasks[2].text
  /\ tasks[1].st = "done" /\ tasks[2].st = "sleep"
  /\ now < tasks[2].due
  /\ clipboard = tasks[2].text

\* the accept deadline has passed with Accept still waiting
DeadlinePassed == pc = "accept" /\ now >= deadline

\* C13: when the accept deadline of a non-permanent caching daemon passes with
\* no connection accepted, the listener loop ends without an error, and from
\* then on no Packet is dispatched and the exit status is zero
C13_DeadlineEndsGracefully ==
  [][~cfg.Flags.Daemon =>
       /\ (DeadlinePassed /\ pc' # pc) =>
              (pc' = "wait" /\ ended' = "deadline" /\ exitCode' = 0)
       /\ ended = "deadline" =>
              /\ pc' \in {"wait", "exited"}
              /\ ~listening' /\ dispatched' = dispatched
              /\ ended' = "deadline" /\ exitCode' = 0]_vars

\* a non-permanent caching daemon has exited after its deadline
C13_Witness ==
  /\ ~cfg.Flags.Daemon /\ ~cfg.General.NoCache
  /\ ended = "deadline" /\ pc = "exited" /\ exitCode = 0

\* the connections whose Packet handlePacket has received
Dispatched == {dispatched[k] : k \in 1..Len(dispatched)}

\* the listener loop ends in this step
ListenerEnds == listening /\ ~listening'

\* handlePacket receives the Packet of connection i in this step (a Packet whose
\* configuration cannot be re-derived ends the daemon inside handlePacket)
Dispatches(i) ==
  /\ pc = "select" /\ dec[i] = "packet"
  /\ \/ dispatched' = Append(dispatched, i)
     \/ ListenerEnds /\ ended' = "config" /\ i = cur

\* C14 as stated: no Packet is dispatched twice and none is lost: when the
\* listener loop ends, every connection made to it (its client's Dial and
\* Encode succeed as soon as the connection is queued) has been dispatched,
\* unless it carried no Packet (decode error or EOF)
C14_ExactlyOnce ==
  [][/\ \A i \in 1..MaxConns : Dispatches(i) => i \notin Dispatched
     /\ ListenerEnds =>
          \A i \in 1..nconn :
             i \in Dispatched \/ dec[i] \in {"err", "gone"} \/ Dispatches(i)]_vars

\* C14 amended: a Packet is dispatched at most once, only from the connection
\* accepted last, and a Packet decoded before the watchdog fires is dispatched
\* by the step that leaves the select
C14_AtMostOnce ==
  [][/\ \A i \in 1..MaxConns : Dispatches(i) => (i = cur /\ i \notin Dispatched)
     /\ (listening' /\ dispatched' # dispatched) => Dispatches(cur)
     /\ (pc = "select" /\ pc' # pc /\ dec[cur] = "packet" /\ now < watchdog)
           => Dispatches(cur)]_vars

\* the Packet of a connection that waited in the backlog during the cycle of
\* the connection before it has been dispatched
C14_Witness ==
  /\ Len(dispatched) = 2 /\ InNavigation /\ call = "served"

\* connection i was accepted by an earlier iteration of a running listener loop
\* and its Packet was not dispatched: the watchdog of its iteration has fired
TimedOut(i) ==
  /\ listening /\ i # cur /\ i \notin Dispatched
  /\ \E k \in 1..Len(accepted) : accepted[k] = i

\* C15: when the watchdog fires with the Packet not decoded, the daemon goes
\* back to accepting; the Packet of a connection whose watchdog has fired is
\* never dispatched, and the only decode error that ends the daemon is one of
\* the connection accepted last
C15_WatchdogDropsConnection ==
  [][/\ (pc = "select" /\ WatchdogFired(now, watchdog) /\ dec[cur] = "running"
            /\ pc' # pc)
          => (pc' = "loop" /\ listening' /\ ended' = ended /\ exitCode' = exitCode)
     /\ \A i \in 1..MaxConns : Dispatches(i) => ~TimedOut(i)
     /\ (ListenerEnds /\ ended' = "decode")
          => (pc = "select" /\ cur # 0 /\ dec[cur] = "err")]_vars

\* the decode of a connection whose watchdog has fired has ended with an error
\* and the daemon serves the next connection
C15_Witness ==
  \E i \in 1..MaxConns :
     TimedOut(i) /\ dec[i] = "err" /\ pc = "select" /\ cur # 0

\* the main goroutine leaves the select of the connection accepted last
LeavesSelect == pc = "select" /\ pc' # pc

\* C16: a decode error other than EOF that arrives before the watchdog fires
\* ends the listener loop and the process with an error; after a connection
\* closed without data (EOF) nothing is dispatched and the daemon goes back to
\* accepting
C16_DecodeErrorIsFatalEOFIsNot ==
  [][/\ (LeavesSelect /\ dec[cur] = "err" /\ ~WatchdogFired(now, watchdog))
          => (pc' = "exited" /\ ended' = "decode" /\ exitCode' = 1 /\ ~listening')
     /\ (LeavesSelect /\ dec[cur] = "gone")
          => /\ pc' = "loop" /\ listening'
             /\ dispatched' = dispatched
             /\ ended' = ended /\ exitCode' = exitCode]_vars

\* a connection was closed without data and the daemon accepts again
C16_Witness ==
  /\ pc = "accept" /\ dispatched = << >>
  /\ \E i \in 1..MaxConns : TimedOut(i) /\ dec[i] = "gone"

\* C18: while the first invocation with caching enabled unlocks the database
\* and runs its first navigation cycle, its listener is already bound
C18_ListenerBoundBeforeFirstCycle ==
  (call = "first" /\ InNavigation) => listening

\* C20: a process that has terminated because of a fatal error (unlock failure,
\* copy failure, a Packet whose configuration cannot be re-derived, a decode
\* failure) has a non-zero exit status, in the first inline call and in a
\* served call alike
C20_FatalErrorExitsNonZero ==
  (pc = "exited" /\ ended \in {"unlock", "copy", "config", "decode"})
     => exitCode # 0

\* invocation q runs StartServer or what it calls
RunsAsDaemon(q) ==
  launch.inv[q].pc \in {"StartServer", "Execute", "Listen", "savePort", "loop"}

\* C17: an invocation runs as the daemon exactly if its client attempt failed;
\* an invocation whose client attempt succeeded has sent one Packet, which holds
\* its own argument list, and has exited without unlocking, navigating or
\* binding a listener
C17_DaemonIffClientFailed ==
  \A q \in Invocations :
     LET i == launch.inv[q]
     IN /\ RunsAsDaemon(q) => (i.err /\ i.role = "daemon")
        /\ i.role # "none" => (i.role = "daemon" <=> i.err)
        /\ Len(i.sent) <= 1
        /\ i.role = "client" =>
              /\ i.sent = << Packet(i.args) >>
              /\ i.pc = "exited" /\ ~i.unlocked /\ i.port = NoPort

\* one invocation serves and the other has handed its arguments to it
C17_Witness ==
  \E q, p \in Invocations :
     /\ launch.inv[q].role = "client" /\ launch.inv[q].conn = p
     /\ launch.inv[p].role = "daemon"
     /\ launch.inv[q].sent = << Packet(launch.inv[q].args) >>

\* C19 as stated: at most one invocation holds a bound listener at any time
C19_AtMostOneDaemon == Cardinality(Listeners) <= 1

\* the client attempt of invocation q fails in this step
ClientAttemptFails(q) ==
  /\ launch.inv[q].pc \in {"getPort", "Dial", "Encode"}
  /\ launch'.inv[q].err

\* C19 amended: a client attempt fails, and the invocation becomes one more
\* daemon, only when no live listener is bound to the port it read from the
\* PortRecord (no record read, nothing listening there, or the listener it
\* connected to has closed)
C19_SecondDaemonOnlyIfNoneReachable ==
  [][\A q \in Invocations :
       ClientAttemptFails(q) =>
         IF launch.inv[q].pc = "Encode"
         THEN launch.inv[q].conn \notin Listeners
         ELSE \A p \in Listeners : launch.inv[p].port # launch.inv[q].read]_vars

\* an invocation that read the port of a daemon that has ended is a daemon
C19_Witness ==
  \E q, p \in Invocations :
     /\ launch.inv[q].role = "daemon" /\ launch.inv[q].read # NoPort
     /\ launch.inv[p].role = "daemon" /\ launch.inv[p].pc = "exited"

\* the step in which the prompt named at has returned
Prompted(at) == observed' # observed /\ observed'.at = at

\* the call of this step ends, and the process with it
EndsProcess == pc' \in {"wait", "exited"} /\ ~listening'

\* the call of this step ends and the process goes on: to the listener after
\* the first call, round the loop after a served call; without caching the
\* process ends with no error
EndsCallOnly ==
  /\ pc' = (CASE call = "single" -> "wait" [] call = "first" -> "listen" [] OTHER -> "loop")
  /\ listening' = listening /\ exitCode' = exitCode
  /\ ended' \in {"no", "single"}

\* C21: when Exit is selected at the top menu, in the first call or a served
\* one, also after Reloads, the call ends the process: the listener is closed
\* (or never bound) and main only waits for the clear tasks; after that no
\* prompt is shown again
C21_ExitStopsDaemon ==
  [][/\ (Prompted("menu") /\ observed'.r = PickerOk("Exit"))
          => (EndsProcess /\ ended' = "exit")
     /\ (observed.at = "menu" /\ observed.r = PickerOk("Exit"))
          => (pc \in {"wait", "exited"} /\ EndsProcess /\ observed' = observed)]_vars

\* Exit was selected in a served call after a Reload of that call
C21_Witness ==
  /\ observed.at = "menu" /\ observed.r = PickerOk("Exit")
  /\ call = "served" /\ callDecoded = FALSE /\ pc = "exited" /\ accepted = << >>

\* the user cancelled the prompt, or chose a line that is no entry or no field
CancelledOrNoMatch ==
  \/ Prompted("menu") /\ observed'.r.Cancelled /\ ~observed'.r.Error
  \/ /\ Prompted("entries")
     /\ ~observed'.r.Error /\ ~observed'.rf.Error
     /\ \/ observed'.r.Cancelled
        \/ observed'.rf.Cancelled
        \/ PromptEntries(observed'.r) = NoEntry
        \/ PromptFields(PromptEntries(observed'.r), observed'.rf) = ""

PickerFailed(r) == r.Error

\* C23: a failure of the picker that is no cancellation, at the top menu, the
\* entry or the field prompt, ends the call and the process, and no entry or
\* field prompt follows it
C23_PickerFailureIsFatal ==
  [][(\/ Prompted("menu") /\ PickerFailed(observed'.r)
      \/ Prompted("entries") /\ (PickerFailed(observed'.r) \/ PickerFailed(observed'.rf)))
        => (EndsProcess /\ pc' # "entries")]_vars

\* the password prompt was cancelled or failed, or the database does not
\* decode under the password typed
UnlockFailsAtPrompt ==
  /\ Prompted("password")
  /\ \/ observed'.r.Cancelled
     \/ observed'.r.Error
     \/ ~observed'.ok
     \/ AddCredentialsToDatabase(cfg, observed'.r.result, creds) # MasterKey(cfg.Database.Database)

\* an unlock attempt of a call that found loaded false ends without a menu
UnlockAttemptEndsCall ==
  /\ ~loaded
  /\ pc \in {"Execute", "pwprompt"}
  /\ pc' \notin {"menu", "pwprompt"}

\* C24: when the database cannot be unlocked in a call that found loaded false
\* (password prompt cancelled or failed, decoding failed), the call ends the
\* process, loaded stays false, no menu is shown, and nothing is attempted
\* after it
C24_UnlockFailureIsFatal ==
  [][/\ (UnlockFailsAtPrompt \/ UnlockAttemptEndsCall)
          => (EndsProcess /\ ended' = "unlock" /\ ~loaded' /\ pc' # "menu")
     /\ ended = "unlock" => (pc \in {"wait", "exited"} /\ EndsProcess /\ loaded' = loaded)]_vars

\* the first call typed a password under which the database does not decode
C24_Witness ==
  /\ observed.at = "password" /\ ~observed.r.Cancelled /\ ~observed.r.Error
  /\ observed.ok /\ observed.r.result = "pw2"
  /\ call = "first" /\ ended = "unlock" /\ ~loaded /\ ~listening /\ pc = "exited"

\* Reload was selected at the top menu in this step
Reloads == Prompted("menu") /\ observed'.r = PickerOk("Reload database")

\* the database is decoded again under the stored credentials
ReloadDecodes == DecodeSucceeds(cfg.Database.Database, creds, observed'.ok)

\* C25 (as stated): a Reload whose re-decoding failed has ended the call with
\* loaded false
C25_FailedReloadClearsLoaded ==
  (observed.at = "menu" /\ observed.r = PickerOk("Reload database") /\ ended = "unlock")
    => ~loaded

\* C25 (amended): Reload decodes the database again without touching loaded
\* first; on success the top menu is shown again in the same call, with
\* loaded true and the listener as it was; on failure the call ends the
\* process and loaded keeps the value true it had
C25_ReloadRedecodes ==
  [][Reloads =>
       IF ReloadDecodes
       THEN /\ pc' = "menu" /\ loaded' /\ callDecoded'
            /\ UNCHANGED << call, listening, ended, exitCode, clipboard, tasks >>
       ELSE /\ EndsProcess /\ ended' = "unlock"
            /\ loaded' = loaded]_vars

\* a served call shows its menu again after a Reload
C25_Witness ==
  /\ observed.at = "menu" /\ observed.r = PickerOk("Reload database")
  /\ call = "served" /\ pc = "menu" /\ loaded /\ callDecoded /\ listening

\* the process has not decoded the database yet
BeforeFirstUnlock == ~loaded /\ decodedPath = "" /\ call \in {"none", "first", "single"}

\* C26: until the first successful unlock has completed cacheStart is unset,
\* so that the cache window is measured from the unlock
C26_CacheStartUnsetBeforeUnlock ==
  BeforeFirstUnlock => cacheStart = ZeroTime

\* the clear task of the last copy leaves its sleep, or ends, in this step
LastTaskReads ==
  /\ observed.at = "copy" /\ tasks # << >>
  /\ tasks[Len(tasks)].st = "sleep" /\ tasks'[Len(tasks)].st # "sleep"

LastTaskClears ==
  /\ observed.at = "copy" /\ tasks # << >>
  /\ tasks[Len(tasks)].st = "clear" /\ tasks'[Len(tasks)].st = "done"

\* C27: what a clear task does is fixed when the value is copied: with working
\* tools, a task copied under a backend that can read and clear, whose value
\* is still on the clipboard, clears it, whatever Packet has changed the
\* configured backend or timeout in between; and no step of a task writes
\* the session or the configuration
C27_TaskUsesBackendOfCopy ==
  [][/\ (LastTaskReads /\ ~toolsMayFail /\ PasteCommand(observed.cfg) # NoCommand
            /\ MustClear(tasks[Len(tasks)].text, clipboard))
          => tasks'[Len(tasks)].st = "clear"
     /\ (LastTaskClears /\ ~toolsMayFail /\ CleanCommand(observed.cfg) # NoCommand)
          => clipboard' = ""
     /\ (LastTaskReads \/ LastTaskClears) => UNCHANGED sessionVars]_vars

\* entrySelection has got a field value and has run CopyToClipboard in this step
Copies ==
  /\ Prompted("entries")
  /\ ~observed'.r.Cancelled /\ ~observed'.rf.Cancelled
  /\ PromptFields(PromptEntries(observed'.r), observed'.rf) # ""

\* C28: a copy that succeeded adds exactly one sleeping clear task for the
\* copied value when the clear timeout is positive and none when it is zero
\* or negative; a copy that failed adds none, leaves the clipboard, and ends
\* the call and the process
C28_OneClearTaskPerCopy ==
  [][Copies =>
       IF observed'.ok
       THEN /\ clipboard' = PromptFields(PromptEntries(observed'.r), observed'.rf)
            /\ EndsCallOnly
            /\ IF cfg.General.ClipboardTimeout > 0
               THEN /\ Len(tasks') = Len(tasks) + 1
                    /\ SubSeq(tasks', 1, Len(tasks)) = tasks
                    /\ tasks'[Len(tasks')].text = clipboard'
                    /\ tasks'[Len(tasks')].st = "sleep"
               ELSE tasks' = tasks
       ELSE /\ UNCHANGED << tasks, clipboard >>
            /\ EndsProcess /\ ended' = "copy"]_vars

\* a served call has copied a value and its clear task sleeps
C28_Witness ==
  /\ observed.at = "entries" /\ observed.ok
  /\ call = "served" /\ pc = "loop"
  /\ Len(tasks) = 1 /\ tasks[1].st = "sleep" /\ clipboard = tasks[1].text

\* C29: a process started with caching disabled runs Execute once: it never
\* binds a listener (so never writes its port), accepts and dispatches
\* nothing, never starts a second cycle, and ends after the cycle: at once when
\* the cycle was fatal, else when WaitGroup.Wait has seen every clear task end
C29_NoCacheRunsOneCycle ==
  [][/\ (pc = "StartServer" /\ cfg.General.NoCache /\ pc' # pc)
          => (call' = "single" /\ pc' = "Execute")
     /\ call = "single" =>
          /\ call' = "single"
          /\ ~listening /\ ~listening'
          /\ accepted' = << >> /\ dispatched' = << >>
          /\ pc' \in {"Execute", "pwprompt", "menu", "entries", "wait", "exited"}
          /\ pc' = "Execute" => pc = "Execute"
          /\ pc \in {"wait", "exited"} => pc' \in {"wait", "exited"}
          /\ (pc = "wait" /\ pc' = "exited") => Pending(tasks) = {}]_vars

\* the single cycle copied a value and the process has ended after the clear
\* task
C29_Witness ==
  /\ call = "single" /\ cfg.General.NoCache
  /\ pc = "exited" /\ ended = "single" /\ exitCode = 0
  /\ tasks # << >> /\ Pending(tasks) = {}

\* the WaitGroup counter: the tasks that have not called Done
Outstanding == Cardinality(Pending(tasks))

Erases(i) ==
  /\ i \in 1..Len(tasks)
  /\ tasks[i].st = "clear" /\ tasks'[i].st = "done"
  /\ clipboard' = "" /\ clipboard # ""

\* C32: a clear task never empties a clipboard that holds a value other than
\* the one it was spawned for, however its read and its clear interleave with
\* writes of other programs and with later copies of the daemon
C32_ErasesOnlyOwnValue ==
  [][\A i \in 1..MaxClipTasks : Erases(i) => clipboard = tasks[i].text]_vars

\* C33: entry selection is entered from the top menu only when the picker
\* returned the line "Show entries"
C33_EntriesOnlyAfterShow ==
  [][(Prompted("menu") /\ pc' = "entries") => observed'.r = PickerOk("Show entries")]_vars

\* the password prompt is shown in this step
ShowsPasswordPrompt == pc # "pwprompt" /\ pc' = "pwprompt"

\* C34: the password prompt is shown only while no credentials are stored,
\* and when it has returned they are stored or the process ends: so at most
\* once in a process. Stored credentials are never replaced: every later
\* decoding (Reload, expired cache, caching disabled or database section
\* changed by a Packet) runs under them, whatever password the configuration
\* of that call names
C34_PromptsAtMostOnce ==
  [][/\ ShowsPasswordPrompt => (~HasCredentials(creds) /\ decodedPath = "" /\ call # "served")
     /\ (pc = "pwprompt" /\ pc' # "pwprompt")
          => (EndsProcess \/ (pc' = "menu" /\ HasCredentials(creds')))
     /\ HasCredentials(creds) => creds' = creds]_vars

\* a served call whose Packet named another password has decoded the database
\* again under the stored one, with no prompt
C34_Witness ==
  /\ call = "served" /\ callChanged /\ callDecoded /\ pc = "menu"
  /\ cfg.Database.Password = "pw2" /\ creds.Passphrase = "pw1"

\* the cache window of configuration c is over at the present instant
Expired(c) ==
  /\ ~c.Flags.Daemon /\ ~c.General.NoCache
  /\ cacheStart # ZeroTime
  /\ ~CacheValid(c, cacheStart, now)

\* the served call is between Show's cache check and the next top of the loop
AfterCacheCheck ==
  call = "served" /\ pc \in {"Execute", "pwprompt", "menu", "entries", "loop"}

\* C35: when Show finds the cache window over in a served call, it clears
\* loaded and leaves cacheStart as it is; the window is still over when the
\* call has ended, so the deadline set at the top of the loop is not in the
\* future, and Accept hands out no connection under such a deadline: the loop
\* ends
C35_ExpiredCacheEndsDaemon ==
  [][/\ (ShowEvaluates /\ Expired(cfg')) => (~loaded' /\ cacheStart' = cacheStart)
     /\ (AfterCacheCheck /\ Expired(cfg) /\ pc' # "wait") => (AfterCacheCheck' => Expired(cfg'))
     /\ (pc = "loop" /\ pc' = "accept" /\ Expired(cfg)) => deadline' <= now
     /\ (pc = "accept" /\ deadline <= now /\ pc' # "accept")
          => (Len(accepted') <= Len(accepted) /\ pc' \in {"wait", "exited"} /\ ~listening')]_vars

\* a served call has found the window over and has decoded the database again
C35_Witness ==
  /\ call = "served" /\ pc = "menu" /\ loaded /\ callDecoded /\ ~callChanged
  /\ Expired(cfg)

\* Show runs its cache check for a Packet that leaves the database section as it
\* was, in a daemon that is not permanent, caches, and has a window running
ChecksRunningWindow ==
  /\ ShowEvaluates
  /\ ~cfg'.Flags.Daemon /\ ~cfg'.General.NoCache
  /\ cacheStart # ZeroTime
  /\ ~callChanged' /\ loaded

\* C36 (as stated): a served call of such a daemon, whose connection Accept
\* handed out before the deadline, starts Execute with loaded true
C36_AcceptedInTimeIsServedFromCache ==
  (/\ call = "served" /\ pc = "Execute" /\ ~callChanged
   /\ ~cfg.Flags.Daemon /\ ~cfg.General.NoCache /\ cacheStart # ZeroTime)
    => loaded

\* C36 (amended): such a call is served from the cache exactly when the whole
\* seconds elapsed since cacheStart are below the timeout at the instant of
\* the cache check, not of the accept
C36_ServedFromCacheIfValidAtCheck ==
  [][ChecksRunningWindow =>
       (loaded' <=> Seconds(now - cacheStart) < cfg'.General.CacheTimeout)]_vars

\* a call is served from the cache after time has passed since the window began
C36_Witness ==
  /\ call = "served" /\ pc = "Execute" /\ loaded /\ ~callChanged
  /\ ~cfg.Flags.Daemon /\ ~cfg.General.NoCache /\ ~cfg.General.CacheOneTime
  /\ cacheStart = now /\ now > StartTime


\* ------------------------------------------------------------------ C37
\* the Packet that was dispatched met an invalid configuration: the config file
\* did not load, a tool is missing, or no database is selected once the file
\* and the arguments of the Packet have been applied
InvalidConfiguration(in, c) ==
  \/ ~in.loadOk
  \/ ~in.toolsFound
  \/ ParseFlags(LoadConfig(c), in.args).Database.Database = ""

\* the select hands a Packet to Show
ShowRuns == pc = "select" /\ observed'.at = "packet"

\* C37: a dispatched Packet whose argument list yields an invalid configuration
\* makes the dispatch return the fatal flag before the cache is evaluated, the
\* database unlocked or a menu shown: Loaded, CacheStart and the credentials
\* are left as they were, the listener is closed, the daemon waits for its
\* clear tasks and ends; and a daemon stopped this way presents nothing again.
C37_InvalidConfigurationStopsDaemon ==
  [][/\ (ShowRuns /\ InvalidConfiguration(observed'.r, cfg)) =>
          /\ pc' = "wait" /\ ended' = "config" /\ ~listening'
          /\ loaded' = loaded /\ cacheStart' = cacheStart
          /\ creds' = creds /\ decodedPath' = decodedPath
          /\ tasks' = tasks /\ clipboard' = clipboard
     /\ ended = "config" => (pc' \in {"wait", "exited"} /\ ended' = "config")]_vars

\* a Packet selecting no database has stopped the daemon, its cache still valid
C37_Witness ==
  /\ ended = "config"
  /\ pc = "exited"
  /\ observed.at = "packet"
  /\ observed.r.args = <<"-d", "">>
  /\ loaded
  /\ CacheValid(cfg, cacheStart, now)

\* ------------------------------------------------------------------ C38
\* invocation q writes the PortRecord in this step
Writes(q) ==
  /\ launch.inv[q].pc = "savePort"
  /\ launch'.inv[q].pc = "loop"
  /\ launch'.record = launch.inv[q].port
  /\ launch'.writer = q

\* the daemon that wrote the PortRecord has ended
WriterEnded ==
  \/ launch.writer = EarlierDaemon
  \/ launch.writer \in Invocations /\ launch.inv[launch.writer].pc = "exited"

\* invocation q dials in this step
Dials(q) == launch.inv[q].pc = "Dial" /\ launch'.inv[q].pc # "Dial"

\* C38 as stated, its last part: an invocation that dials the port of a
\* PortRecord whose writer has ended fails to connect
C38_StaleRecordNeverConnects ==
  [][\A q \in Invocations :
       (Dials(q) /\ launch.inv[q].read = launch.record /\ launch.record # NoPort
          /\ WriterEnded) => launch'.inv[q].err]_vars

\* C38 amended: the PortRecord changes only when a daemon that has just bound
\* its listener writes its port, on its way into the accept loop, and whoever
\* enters the loop has written; a daemon in the loop or ended writes no more,
\* and the end of the loop leaves the record as it is, so the record holds the
\* port of the daemon that wrote last. An invocation that dials the port of a
\* record whose writer has ended fails and becomes a daemon when no other
\* listener is bound to that port; when one is, it connects to that listener.
C38_RecordWrittenOnceAndLeft ==
  [][/\ (launch'.record # launch.record \/ launch'.writer # launch.writer)
          => \E q \in Invocations : Writes(q)
     /\ \A q \in Invocations :
          /\ (launch.inv[q].pc # "loop" /\ launch'.inv[q].pc = "loop") => Writes(q)
          /\ launch.inv[q].pc \in {"loop", "exited"}
               => (launch'.inv[q].pc \in {"loop", "exited"} /\ ~Writes(q))
          /\ (launch.inv[q].pc = "loop" /\ launch'.inv[q].pc = "exited")
               => launch'.record = launch.record
          /\ (Dials(q) /\ launch.inv[q].read = launch.record /\ WriterEnded)
               => (launch'.inv[q].err <=>
                     \A p \in Listeners : launch.inv[p].port # launch.inv[q].read)
          /\ (launch.inv[q].pc = "returned" /\ launch'.inv[q].pc # "returned"
                 /\ launch.inv[q].err)
               => (launch'.inv[q].role = "daemon" /\ launch'.inv[q].pc = "StartServer")]_vars

\* the record of a daemon that has ended is still there, and an invocation that
\* read it has become the next daemon and has written its own port over it
C38_Witness ==
  \E q, p \in Invocations :
     /\ launch.inv[p].role = "daemon" /\ launch.inv[p].pc = "exited"
     /\ launch.inv[q].role = "daemon" /\ launch.inv[q].read # NoPort
     /\ launch.inv[q].pc = "loop"
     /\ launch.writer = q /\ launch.record = launch.inv[q].port

\* ------------------------------------------------------------------ C39
\* a value of a field was copied after the user chose a line of the entry
\* list and then a field of the entry
CopiedAField == pick.copied # "" /\ pick.line # 0 /\ pick.result # GenerateOTP

Keys(entry) == [i \in 1..Len(entry) |-> entry[i].Key]

\* the names of the field order that have a value in the entry
NamedInOrder(entry, conf) ==
  SelectSeq(conf.FieldOrder, LAMBDA f : GetContent(entry, f) # "")

\* the other fields of the entry that have a value and are not blacklisted, in
\* the order of the entry; with otpAside the OTP fields are left out
Remaining(entry, conf, otpAside) ==
  Keys(SelectSeq(entry, LAMBDA v :
         /\ v.Content # ""
         /\ ~contains(conf.FillBlacklist, v.Key)
         /\ ~contains(NamedInOrder(entry, conf), v.Key)
         /\ ~(otpAside /\ v.Key \in OtpKeys)))

NoNameTwice(list) == \A i, j \in 1..Len(list) : list[i] = list[j] => i = j

\* the field prompt of the selection has returned
FieldsPrompted == pick.pc \in {"copy", "returned", "panic"}

Answered == pick.result # ""

=============================================================================
